---- MODULE Spec2Model ----
(***************************************************************************)
(* Phrase synchronisation of viet-phrases: the Sync Endpoint               *)
(* (src/app/api/phrases/route.ts), its rate limiter and Remote Store, and  *)
(* the client Sync Coordinator (src/app/page.tsx, component Home).         *)
(*                                                                         *)
(* Strings are sequences of one-character strings, so that trim,           *)
(* toLowerCase, the sync-key pattern and the key prefix are computed.      *)
(* A JavaScript array of phrases is held run-length encoded: the explicit  *)
(* leading elements `items` followed by `fill` copies of FillerPhrase, so  *)
(* that arrays of 10000 and 10001 entries are values the model can hold.   *)
(***************************************************************************)
EXTENDS Integers, Sequences, FiniteSets, TLC

(***************************************************************************)
(* Program constants.                                                      *)
(***************************************************************************)
maxRequests == 60
windowMs == 60000
MaxPhrases == 10000
KeyMinLen == 6
KeyMaxLen == 32
GeneratedKeyLen == 8

(***************************************************************************)
(* Bounds of the model.                                                    *)
(***************************************************************************)
\* the server clock advances in steps of ClockStep ms up to MaxTicks steps
MaxTicks == 3
ClockStep == 40000

(***************************************************************************)
(* Characters and strings.                                                 *)
(***************************************************************************)
LowerChars ==
  <<"a","b","c","d","e","f","g","h","i","j","k","l","m",
    "n","o","p","q","r","s","t","u","v","w","x","y","z">>
UpperChars ==
  <<"A","B","C","D","E","F","G","H","I","J","K","L","M",
    "N","O","P","Q","R","S","T","U","V","W","X","Y","Z">>
DigitChars == <<"0","1","2","3","4","5","6","7","8","9">>

Range(s) == { s[i] : i \in 1..Len(s) }

\* the character class [a-zA-Z0-9]
AlnumChars == Range(LowerChars) \cup Range(UpperChars) \cup Range(DigitChars)

\* /^[a-zA-Z0-9]{6,32}$/.test(s)
SyncKeyPattern(s) ==
  /\ Len(s) >= KeyMinLen
  /\ Len(s) <= KeyMaxLen
  /\ \A i \in 1..Len(s) : s[i] \in AlnumChars

Str_phrases == <<"p","h","r","a","s","e","s",":">>

\* the store key without the sync key: every collection under one entry
RedisKey_Shared(k) == Str_phrases

\* the template string `phrases:${syncKey}`
RedisKey(k) == Str_phrases \o k

(***************************************************************************)
(* Phrases, arrays of phrases and their JSON text.                         *)
(***************************************************************************)
\* interface Phrase, reduced to the fields the coordinator reads
Phrase(id, english) == [id |-> id, english |-> english]

FillerPhrase == Phrase(<<"f">>, <<"x">>)

Arr(items, fill) == [items |-> items, fill |-> fill]
EmptyArr == Arr(<<>>, 0)

\* Array.prototype.length
ArrLen(a) == Len(a.items) + a.fill

\* A JSON text is the sequence of its tokens, each a string; a string literal
\* keeps its quotes. `fill` counts the FillerPhrase objects that stand between
\* the last explicit object and the closing bracket.
Quote(s) == <<"\"">> \o s \o <<"\"">>
Unquote(t) == SubSeq(t, 2, Len(t) - 1)

RECURSIVE ObjTokens(_)
ObjTokens(items) ==
  IF items = <<>> THEN <<>>
  ELSE << <<"{">>, Quote(items[1].id), Quote(items[1].english), <<"}">> >>
         \o ObjTokens(Tail(items))

\* JSON.stringify(array of Phrase)
JSONstringify(a) ==
  [toks |-> << <<"[">> >> \o ObjTokens(a.items) \o << <<"]">> >>, fill |-> a.fill]

RECURSIVE ParseObjs(_)
ParseObjs(toks) ==
  IF Len(toks) < 4 THEN <<>>
  ELSE << Phrase(Unquote(toks[2]), Unquote(toks[3])) >>
         \o ParseObjs(SubSeq(toks, 5, Len(toks)))

\* JSON.parse(text) of a text JSON.stringify produced
JSONparse(text) ==
  Arr(ParseObjs(SubSeq(text.toks, 2, Len(text.toks) - 1)), text.fill)

(***************************************************************************)
(* State.                                                                  *)
(***************************************************************************)
VARIABLES
  now,          \* Date.now() on the server, in ms
  rateLimit,    \* route.ts: Map identifier -> {count, resetTime}
  translateRateLimit, \* translate/route.ts: its own Map identifier -> {count, resetTime}
  redisClient,  \* route.ts: module-level handle, "null" until first use
  handlers,     \* route.ts: the GET/POST calls in progress past getRedisClient()
  headers,      \* x-forwarded-for and x-real-ip of the request handled last
  redis,        \* the Remote Store: redis key -> JSON text
  resp,         \* the request handled last and the response it got
  posted,       \* sync key -> array of the last POST answered 200
  span,         \* observer: start and size of a 60-second span of requests
  win,          \* observer: start and size of the current rate-limit window
  localStorage, \* the Local Cache: items viet-sync-key and viet-phrases, and
                \* whether its quota leaves no room for a viet-phrases value
  thrown,       \* the exception that left a callback of Home uncaught ("": none)
  phrases,      \* Home: useState<Phrase[]>
  syncKey,      \* Home: useState<string>
  currentPhrase,\* Home: useState<Phrase | null>
  isLoading,    \* Home: useState(false)
  syncTimeoutRef, \* Home: useRef, the handle setTimeout returned last
  timers,       \* the pending setTimeout callbacks, each with what it closed over
  initPc,       \* where the init effect's loadPhrases stands
  initKey,      \* `key` of the init effect
  translating,  \* `input.trim()` of the handleSubmit awaiting /api/translate
  nextId,       \* the crypto.randomUUID() values drawn so far, plus one
  net,          \* requests of the client on their way to the endpoint
  inbox,        \* settled fetches whose continuation has not run yet
  log           \* observer of the client: what it has done so far

serverVars == <<now, rateLimit, redisClient, redis>>
endpointVars == <<now, rateLimit, translateRateLimit, redisClient, handlers, headers, redis,
                  resp,
                  posted, span, win>>
clientVars == <<thrown, localStorage, phrases, syncKey, currentPhrase, isLoading,
                syncTimeoutRef, timers, initPc, initKey, translating, nextId,
                net, inbox, log>>
vars == <<now, rateLimit, translateRateLimit, redisClient, handlers, headers, redis, resp,
          posted,
          span, win,
          thrown, localStorage, phrases, syncKey, currentPhrase, isLoading,
          syncTimeoutRef, timers, initPc, initKey, translating, nextId,
          net, inbox, log>>

Has(f, k) == k \in DOMAIN f
Put(f, k, v) == [x \in DOMAIN f \cup {k} |-> IF x = k THEN v ELSE f[x]]

----
(***************************************************************************)
(* The Sync Endpoint.                                                      *)
(***************************************************************************)

\* checkRateLimit with `count > maxRequests` for `count >= maxRequests`
checkRateLimit_OffByOne(rl, identifier, t) ==
  IF ~Has(rl, identifier) \/ t > rl[identifier].resetTime
  THEN [map |-> Put(rl, identifier, [count |-> 1, resetTime |-> t + windowMs]),
        ok |-> TRUE]
  ELSE IF rl[identifier].count > maxRequests
  THEN [map |-> rl, ok |-> FALSE]
  ELSE [map |-> Put(rl, identifier,
                    [count |-> rl[identifier].count + 1,
                     resetTime |-> rl[identifier].resetTime]),
        ok |-> TRUE]

\* checkRateLimit keeping one record for all identifiers
checkRateLimit_Global(rl, identifier, t) ==
  IF ~Has(rl, "*") \/ t > rl["*"].resetTime
  THEN [map |-> Put(rl, "*", [count |-> 1, resetTime |-> t + windowMs]),
        ok |-> TRUE]
  ELSE IF rl["*"].count >= maxRequests
  THEN [map |-> rl, ok |-> FALSE]
  ELSE [map |-> Put(rl, "*",
                    [count |-> rl["*"].count + 1,
                     resetTime |-> rl["*"].resetTime]),
        ok |-> TRUE]

\* checkRateLimit(identifier): the new map and the verdict
checkRateLimit(rl, identifier, t) ==
  IF ~Has(rl, identifier) \/ t > rl[identifier].resetTime
  THEN [map |-> Put(rl, identifier, [count |-> 1, resetTime |-> t + windowMs]),
        ok |-> TRUE]
  ELSE IF rl[identifier].count >= maxRequests
  THEN [map |-> rl, ok |-> FALSE]
  ELSE [map |-> Put(rl, identifier,
                    [count |-> rl[identifier].count + 1,
                     resetTime |-> rl[identifier].resetTime]),
        ok |-> TRUE]

\* a response: NextResponse.json({phrases} | {success} | {error}, {status})
Response(status, error, body) ==
  [status |-> status, error |-> error, phrases |-> body]

\* the outcome of a handler: the server state it leaves, its response, whether
\* checkRateLimit admitted the request, whether the handler went on to
\* getRedisClient(), i.e. used the Remote Store, and whether that call threw
Outcome(rl, client, store, r, admitted, used) ==
  [rl |-> rl, client |-> client, store |-> store, resp |-> r,
   admitted |-> admitted, used |-> used, threw |-> r.status = 500]

TooMany == Response(429, "Too many requests. Please try again later.", EmptyArr)

\* redis.get(key): the text, or null
RedisGet(store, key) ==
  IF Has(store, key) THEN [null |-> FALSE, text |-> store[key]]
  ELSE [null |-> TRUE, text |-> JSONstringify(EmptyArr)]

\* KeyError without the pattern test (only `!syncKey`)
KeyError_PresenceOnly(k) ==
  IF k.type # "string" \/ k.str = <<>> THEN "Sync key is required" ELSE ""

\* the validation both handlers share; "" when the key passes
\* (k.type is typeof syncKey, k.str its value when a string)
KeyError(k) ==
  IF k.type # "string" \/ k.str = <<>> THEN "Sync key is required"
  ELSE IF ~SyncKeyPattern(k.str) THEN "Invalid sync key format"
  ELSE ""

\* the size check with `>=` for `>`
TooManyPhrases_OffByOne(a) == ArrLen(a) >= MaxPhrases

\* phrases.length > 10000
TooManyPhrases(a) == ArrLen(a) > MaxPhrases

\* the write as SET ... NX: a value already stored under the key is kept
RedisSet_KeepFirst(store, k, a) ==
  IF Has(store, RedisKey(k)) THEN store ELSE Put(store, RedisKey(k), JSONstringify(a))

\* the write appending to the collection already stored under the key
RedisSet_Merge(store, k, a) ==
  IF Has(store, RedisKey(k))
  THEN Put(store, RedisKey(k),
           JSONstringify(Arr(JSONparse(store[RedisKey(k)]).items \o a.items,
                             JSONparse(store[RedisKey(k)]).fill + a.fill)))
  ELSE Put(store, RedisKey(k), JSONstringify(a))

\* the write guarded by `phrases.length > 0`
RedisSet_SkipEmpty(store, k, a) ==
  IF ArrLen(a) > 0 THEN Put(store, RedisKey(k), JSONstringify(a)) ELSE store

\* redis.set(`phrases:${syncKey}`, JSON.stringify(phrases))
RedisSet(store, k, a) == Put(store, RedisKey(k), JSONstringify(a))

\* GET answering 404 when the Remote Store holds nothing under the key
HandleGET_Absent404(rl, client, store, t, identifier, k, fault) ==
  LET lim == checkRateLimit(rl, identifier, t) IN
  IF ~lim.ok
  THEN Outcome(lim.map, client, store, TooMany, FALSE, FALSE)
  ELSE IF KeyError(k) # ""
  THEN Outcome(lim.map, client, store, Response(400, KeyError(k), EmptyArr), TRUE, FALSE)
  ELSE IF fault
  THEN Outcome(lim.map, "client", store,
               Response(500, "Failed to load phrases", EmptyArr), TRUE, TRUE)
  ELSE LET data == RedisGet(store, RedisKey(k.str)) IN
       Outcome(lim.map, "client", store,
               IF ~data.null THEN Response(200, "", JSONparse(data.text))
               ELSE Response(404, "Not found", EmptyArr),
               TRUE, TRUE)

\* GET validating the sync key before it looks at the rate limit
HandleGET_ValidateFirst(rl, client, store, t, identifier, k, fault) ==
  IF KeyError(k) # ""
  THEN Outcome(rl, client, store, Response(400, KeyError(k), EmptyArr), TRUE, FALSE)
  ELSE LET lim == checkRateLimit(rl, identifier, t) IN
  IF ~lim.ok
  THEN Outcome(lim.map, client, store, TooMany, FALSE, FALSE)
  ELSE IF fault
  THEN Outcome(lim.map, "client", store,
               Response(500, "Failed to load phrases", EmptyArr), TRUE, TRUE)
  ELSE LET data == RedisGet(store, RedisKey(k.str)) IN
       Outcome(lim.map, "client", store,
               Response(200, "", IF ~data.null THEN JSONparse(data.text) ELSE EmptyArr),
               TRUE, TRUE)

\* GET: fault = the Remote Store call throws
HandleGET(rl, client, store, t, identifier, k, fault) ==
  LET lim == checkRateLimit(rl, identifier, t) IN
  IF ~lim.ok
  THEN Outcome(lim.map, client, store, TooMany, FALSE, FALSE)
  ELSE IF KeyError(k) # ""
  THEN Outcome(lim.map, client, store, Response(400, KeyError(k), EmptyArr), TRUE, FALSE)
  ELSE IF fault
  THEN Outcome(lim.map, "client", store,
               Response(500, "Failed to load phrases", EmptyArr), TRUE, TRUE)
  ELSE LET data == RedisGet(store, RedisKey(k.str)) IN
       Outcome(lim.map, "client", store,
               Response(200, "", IF ~data.null THEN JSONparse(data.text) ELSE EmptyArr),
               TRUE, TRUE)

\* POST without the try/catch: the Remote Store's exception leaves the handler
\* and no response is built
HandlePOST_Uncaught(rl, client, store, t, identifier, k, p, fault) ==
  LET lim == checkRateLimit(rl, identifier, t) IN
  IF ~lim.ok
  THEN Outcome(lim.map, client, store, TooMany, FALSE, FALSE)
  ELSE IF KeyError(k) # ""
  THEN Outcome(lim.map, client, store, Response(400, KeyError(k), EmptyArr), TRUE, FALSE)
  ELSE IF ~p.isArray
  THEN Outcome(lim.map, client, store,
               Response(400, "Phrases must be an array", EmptyArr), TRUE, FALSE)
  ELSE IF TooManyPhrases(p.arr)
  THEN Outcome(lim.map, client, store,
               Response(400, "Too many phrases (max 10000)", EmptyArr), TRUE, FALSE)
  ELSE IF fault
  THEN Outcome(lim.map, "client", store, Response(0, "uncaught", EmptyArr), TRUE, TRUE)
  ELSE Outcome(lim.map, "client", RedisSet(store, k.str, p.arr),
               Response(200, "", EmptyArr), TRUE, TRUE)

\* POST testing Array.isArray(phrases) before the pattern of the sync key
HandlePOST_ArrayFirst(rl, client, store, t, identifier, k, p, fault) ==
  LET lim == checkRateLimit(rl, identifier, t) IN
  IF ~lim.ok
  THEN Outcome(lim.map, client, store, TooMany, FALSE, FALSE)
  ELSE IF KeyError_PresenceOnly(k) # ""
  THEN Outcome(lim.map, client, store,
               Response(400, KeyError_PresenceOnly(k), EmptyArr), TRUE, FALSE)
  ELSE IF ~p.isArray
  THEN Outcome(lim.map, client, store,
               Response(400, "Phrases must be an array", EmptyArr), TRUE, FALSE)
  ELSE IF KeyError(k) # ""
  THEN Outcome(lim.map, client, store, Response(400, KeyError(k), EmptyArr), TRUE, FALSE)
  ELSE IF TooManyPhrases(p.arr)
  THEN Outcome(lim.map, client, store,
               Response(400, "Too many phrases (max 10000)", EmptyArr), TRUE, FALSE)
  ELSE IF fault
  THEN Outcome(lim.map, "client", store,
               Response(500, "Failed to save phrases", EmptyArr), TRUE, TRUE)
  ELSE Outcome(lim.map, "client", RedisSet(store, k.str, p.arr),
               Response(200, "", EmptyArr), TRUE, TRUE)

\* POST: body = {syncKey: k, phrases: p}; p.isArray is Array.isArray(phrases)
HandlePOST(rl, client, store, t, identifier, k, p, fault) ==
  LET lim == checkRateLimit(rl, identifier, t) IN
  IF ~lim.ok
  THEN Outcome(lim.map, client, store, TooMany, FALSE, FALSE)
  ELSE IF KeyError(k) # ""
  THEN Outcome(lim.map, client, store, Response(400, KeyError(k), EmptyArr), TRUE, FALSE)
  ELSE IF ~p.isArray
  THEN Outcome(lim.map, client, store,
               Response(400, "Phrases must be an array", EmptyArr), TRUE, FALSE)
  ELSE IF TooManyPhrases(p.arr)
  THEN Outcome(lim.map, client, store,
               Response(400, "Too many phrases (max 10000)", EmptyArr), TRUE, FALSE)
  ELSE IF fault
  THEN Outcome(lim.map, "client", store,
               Response(500, "Failed to save phrases", EmptyArr), TRUE, TRUE)
  ELSE Outcome(lim.map, "client", RedisSet(store, k.str, p.arr),
               Response(200, "", EmptyArr), TRUE, TRUE)

----
(***************************************************************************)
(* Requests sent straight to the endpoint.                                 *)
(***************************************************************************)
KeyA == <<"a","b","c","1","2","3">>
KeyB == <<"Z","9","z","0","Q","q">>
Key5 == <<"a","b","c","1","2">>
KeyDash == <<"a","b","c","-","1","2","3">>
Key32 == [i \in 1..KeyMaxLen |-> "k"]
Key33 == [i \in 1..(KeyMaxLen + 1) |-> "k"]

StrKey(s) == [type |-> "string", str |-> s]
\* searchParams.get("syncKey") === null, or body.syncKey undefined
NoKey == [type |-> "undefined", str |-> <<>>]
\* body.syncKey a number
NumKey == [type |-> "number", str |-> <<>>]

P1 == Phrase(<<"1">>, <<"H","i">>)
P2 == Phrase(<<"2">>, <<"N","o">>)

ArrayBody(a) == [isArray |-> TRUE, arr |-> a]
\* body.phrases missing or not an array
NotArray == [isArray |-> FALSE, arr |-> EmptyArr]

Identifiers == {"ip1"}

NoRequest ==
  [op |-> "none", identifier |-> "", key |-> NoKey, p |-> NotArray]

\* what the observer keeps of a handled request
Seen(op, identifier, k, p, h) ==
  [req |-> [op |-> op, identifier |-> identifier, key |-> k, p |-> p],
   res |-> h.resp, admitted |-> h.admitted, used |-> h.used, threw |-> h.threw]

\* the observer of rate-limit windows: a window opens at the first request,
\* and at the first request later than windowMs after the last opening
WinNext(w, t) ==
  IF w.n = 0 \/ t > w.start + windowMs
  THEN [start |-> t, n |-> 1]
  ELSE [start |-> w.start, n |-> IF w.n > maxRequests + 1 THEN w.n ELSE w.n + 1]

\* the observer of 60-second spans: a span starts at any request the observer
\* picks (start = now) and counts the requests of the following windowMs ms
SpanNext(s, t, restart) ==
  IF restart THEN [start |-> t, n |-> 1]
  ELSE IF s.n > 0 /\ t - s.start <= windowMs
  THEN [start |-> s.start, n |-> IF s.n > maxRequests + 1 THEN s.n ELSE s.n + 1]
  ELSE [start |-> 0, n |-> 0]

\* GET /api/phrases?syncKey=k arriving from `identifier`
EndpointGET(identifier, k, fault, restart) ==
  LET h == HandleGET(rateLimit, redisClient, redis, now, identifier, k, fault) IN
  /\ rateLimit' = h.rl
  /\ redisClient' = h.client
  /\ redis' = h.store
  /\ resp' = Seen("GET", identifier, k, NotArray, h)
  /\ span' = SpanNext(span, now, restart)
  /\ win' = WinNext(win, now)
  /\ UNCHANGED <<now, posted>>
  /\ UNCHANGED clientVars
  /\ UNCHANGED <<translateRateLimit, handlers, headers>>

\* POST /api/phrases {syncKey: k, phrases: p} arriving from `identifier`
EndpointPOST(identifier, k, p, fault, restart) ==
  LET h == HandlePOST(rateLimit, redisClient, redis, now, identifier, k, p, fault) IN
  /\ rateLimit' = h.rl
  /\ redisClient' = h.client
  /\ redis' = h.store
  /\ resp' = Seen("POST", identifier, k, p, h)
  /\ posted' = IF h.resp.status = 200 THEN Put(posted, k.str, p.arr) ELSE posted
  /\ span' = SpanNext(span, now, restart)
  /\ win' = WinNext(win, now)
  /\ UNCHANGED now
  /\ UNCHANGED clientVars
  /\ UNCHANGED <<translateRateLimit, handlers, headers>>

\* time passes on the server
Tick ==
  /\ now < MaxTicks * ClockStep
  /\ now' = now + ClockStep
  /\ UNCHANGED <<rateLimit, redisClient, redis, resp, posted, span, win>>
  /\ UNCHANGED clientVars
  /\ UNCHANGED <<translateRateLimit, handlers, headers>>

\* the calls of GET and POST the server may have in progress at once
MaxHandlers == 3
\* a call that has not begun
NoHandler ==
  [pc |-> "none", op |-> "none", key |-> <<>>, p |-> EmptyArr, handle |-> "null",
   status |-> 0]

\* request.headers.get(name): the value, or null when the request does not
\* carry the header
Header(v) == [null |-> FALSE, val |-> v]
NoHeader == [null |-> TRUE, val |-> <<>>]
Headers(forwardedFor, realIp) == [forwardedFor |-> forwardedFor, realIp |-> realIp]
NoHeaders == Headers(NoHeader, NoHeader)

\* the server process after start-up, and the observers
InitServer ==
  /\ now = 0
  /\ rateLimit = << >>
  /\ translateRateLimit = << >>
  /\ redisClient = "null"
  /\ handlers = [r \in 1..MaxHandlers |-> NoHandler]
  /\ headers = NoHeaders
  /\ resp = [req |-> NoRequest, res |-> Response(0, "", EmptyArr),
             admitted |-> FALSE, used |-> FALSE, threw |-> FALSE]
  /\ posted = << >>
  /\ span = [start |-> 0, n |-> 0]
  /\ win = [start |-> 0, n |-> 0]

----
(***************************************************************************)
(* The Sync Coordinator: component Home of page.tsx.                       *)
(***************************************************************************)
\* bounds of the client's run
MaxMutations == 2
MaxRotations == 1
MaxIds == 2
BurstLen == 5
MaxBurstIds == 3

\* a localStorage item: getItem returns null, or the string stored
NullItem(v) == [null |-> TRUE, val |-> v]
Item(v) == [null |-> FALSE, val |-> v]
NoKeyItem == NullItem(<<>>)
NoPhrasesItem == NullItem(JSONstringify(EmptyArr))

\* String.prototype.trim, for the space character
RECURSIVE TrimStart(_)
TrimStart(s) == IF s # <<>> /\ s[1] = " " THEN TrimStart(Tail(s)) ELSE s
RECURSIVE TrimEnd(_)
TrimEnd(s) ==
  IF s # <<>> /\ s[Len(s)] = " " THEN TrimEnd(SubSeq(s, 1, Len(s) - 1)) ELSE s
Trim(s) == TrimEnd(TrimStart(s))

Str_unknown == <<"u","n","k","n","o","w","n">>

\* forwardedFor.split(",")[0]
FirstEntry(s) ==
  LET commas == {i \in 1..Len(s) : s[i] = ","} IN
  IF commas = {} THEN s
  ELSE SubSeq(s, 1, (CHOOSE i \in commas : \A j \in commas : i <= j) - 1)

\* `if (header)`: null and "" are falsy
Truthy(h) == ~h.null /\ h.val # <<>>

\* getClientIp looking at x-real-ip before x-forwarded-for
getClientIp_RealIpFirst(h) ==
  IF Truthy(h.realIp) THEN h.realIp.val
  ELSE IF Truthy(h.forwardedFor) THEN Trim(FirstEntry(h.forwardedFor.val))
  ELSE Str_unknown

\* logger.ts getClientIp
getClientIp(h) ==
  IF Truthy(h.forwardedFor) THEN Trim(FirstEntry(h.forwardedFor.val))
  ELSE IF Truthy(h.realIp) THEN h.realIp.val
  ELSE Str_unknown

\* String.prototype.toLowerCase
ToLowerCase(s) ==
  [i \in 1..Len(s) |->
     IF \E j \in 1..Len(UpperChars) : UpperChars[j] = s[i]
     THEN LowerChars[CHOOSE j \in 1..Len(UpperChars) : UpperChars[j] = s[i]]
     ELSE s[i]]

\* [newPhrase, ...prev]
ArrPrepend(x, a) == Arr(<<x>> \o a.items, a.fill)

KeepsId(x, id) == x.id # id

\* prev.filter((p) => p.id !== phraseId)
ArrWithout(a, id) ==
  Arr(SelectSeq(a.items, LAMBDA x : KeepsId(x, id)),
      IF FillerPhrase.id = id THEN 0 ELSE a.fill)

ArrIds(a) == { a.items[i].id : i \in 1..Len(a.items) }

NoPhrase == [null |-> TRUE, phrase |-> FillerPhrase]
Some(x) == [null |-> FALSE, phrase |-> x]

\* phrases.find((p) => p.english.toLowerCase() === input.trim().toLowerCase())
FindExisting(a, input) ==
  LET hits == { i \in 1..Len(a.items) :
                  ToLowerCase(a.items[i].english) = ToLowerCase(Trim(input)) }
  IN IF hits = {} THEN NoPhrase
     ELSE Some(a.items[CHOOSE i \in hits : \A j \in hits : i <= j])

\* crypto.randomUUID(): the n-th value drawn
Uuid(n) == <<"u", DigitChars[n + 1]>>

\* what a pending timer closed over; NoTimer is the null of syncTimeoutRef
Closure(key, ph) == [syncKey |-> key, phrases |-> ph]
NoTimer == Closure(<<>>, EmptyArr)

\* a request of the client; a GET carries no array
Req(flow, op, key, ph) == [flow |-> flow, op |-> op, key |-> key, p |-> ph]
\* a settled fetch: status 0 stands for a rejected promise (network error)
Settled(flow, status, ph) == [flow |-> flow, status |-> status, phrases |-> ph]
\* response.ok
Ok(m) == m.status >= 200 /\ m.status <= 299

\* the x-forwarded-for address of the browser
ClientIp == "ip1"

QuotaExceededError == "QuotaExceededError"

\* the save effect with its localStorage.setItem inside a try/catch that
\* swallows the error
SaveEffect_Swallow(ph, key, ls, ref, tms) ==
  IF ArrLen(ph) > 0 /\ key # <<>>
  THEN [ls |-> IF ls.full THEN ls ELSE [ls EXCEPT !.phrases = Item(JSONstringify(ph))],
        ref |-> Closure(key, ph),
        timers |-> (tms \ {ref}) \cup {Closure(key, ph)},
        threw |-> FALSE]
  ELSE [ls |-> ls, ref |-> ref, timers |-> tms, threw |-> FALSE]

\* The save effect, run after a render in which phrases or syncKey changed:
\* the Local Cache, the timer handle and the pending timers it leaves, and
\* whether localStorage.setItem threw (nothing in the effect catches it, so
\* the statements after it are not run).
SaveEffect(ph, key, ls, ref, tms) ==
  IF ArrLen(ph) > 0 /\ key # <<>>
  THEN IF ls.full
       THEN [ls |-> ls, ref |-> ref, timers |-> tms, threw |-> TRUE]
       ELSE [ls |-> [ls EXCEPT !.phrases = Item(JSONstringify(ph))],
             ref |-> Closure(key, ph),
             timers |-> (tms \ {ref}) \cup {Closure(key, ph)},
             threw |-> FALSE]
  ELSE [ls |-> ls, ref |-> ref, timers |-> tms, threw |-> FALSE]

\* a render after setPhrases(ph) and/or setSyncKey(key), with its effect
Render(ph, key, ls) ==
  LET e == SaveEffect(ph, key, ls, syncTimeoutRef, timers) IN
  /\ phrases' = ph
  /\ syncKey' = key
  /\ localStorage' = e.ls
  /\ syncTimeoutRef' = e.ref
  /\ timers' = e.timers
  /\ thrown' = IF e.threw THEN QuotaExceededError ELSE thrown

Cap(n, max) == IF n > max THEN max ELSE n

\* the observer notes a POST the client issued; a debounced one (fired by
\* the timer) ends the burst of mutations before it
NotePost(l, key, ph, debounced) ==
  [l EXCEPT !.posts = Cap(@ + 1, 2),
            !.postsOfCache = IF key = l.key /\ ph = l.cache THEN Cap(@ + 1, 2) ELSE @,
            !.burstPosts = IF l.watch THEN Cap(@ + 1, 2) ELSE @,
            !.burstClosed = IF l.watch THEN @ \/ debounced ELSE @,
            !.lastPost = IF l.watch THEN Closure(key, ph) ELSE @]

\* the observer notes a mutation: it continues the burst unless a debounce
\* timer has fired since the mutation before
NoteMutation(l) ==
  [l EXCEPT !.mutations = @ + 1,
            !.burst = IF ~l.watch THEN @ ELSE IF l.burstClosed THEN 1 ELSE @ + 1,
            !.burstPosts = IF l.watch /\ l.burstClosed THEN 0 ELSE @,
            !.burstClosed = FALSE]
\* the mount effect generating a key whatever the Local Cache holds
Mount_Regenerate(generated) ==
  /\ initPc = "idle"
  /\ initKey' = generated
  /\ Render(phrases, generated, [localStorage EXCEPT !.syncKey = Item(generated)])
  /\ net' = net \cup {Req("init", "GET", generated, EmptyArr)}
  /\ log' = [log EXCEPT !.key = generated]
  /\ initPc' = "get"
  /\ UNCHANGED <<currentPhrase, isLoading, translating, nextId, inbox>>
  /\ UNCHANGED endpointVars

\* The init effect up to the first await: the key is read or generated and
\* stored, and loadPhrases sends its GET.
Mount(generated) ==
  /\ initPc = "idle"
  /\ LET stored == localStorage.syncKey
         key == IF stored.null \/ stored.val = <<>> THEN generated ELSE stored.val
     IN /\ initKey' = key
        /\ Render(phrases, key, [localStorage EXCEPT !.syncKey = Item(key)])
        /\ net' = net \cup {Req("init", "GET", key, EmptyArr)}
        /\ log' = [log EXCEPT !.key = key]
  /\ initPc' = "get"
  /\ UNCHANGED <<currentPhrase, isLoading, translating, nextId, inbox>>
  /\ UNCHANGED endpointVars

\* loadPhrases, were it to prefer a Local Cache entry to the remote collection
LoadPhrases_LocalFirst(m, saved) ==
  IF m.status = 0 \/ (Ok(m) /\ ~saved.null)
  THEN [set |-> ~saved.null, phrases |-> JSONparse(saved.val),
        post |-> Ok(m) /\ ArrLen(JSONparse(saved.val)) > 0,
        outcome |-> IF m.status = 0 THEN "network error" ELSE "remote empty"]
  ELSE IF ~Ok(m)
  THEN [set |-> FALSE, phrases |-> EmptyArr, post |-> FALSE, outcome |-> "error status"]
  ELSE [set |-> ArrLen(m.phrases) > 0, phrases |-> m.phrases, post |-> FALSE,
        outcome |-> IF ArrLen(m.phrases) > 0 THEN "remote" ELSE "remote empty"]

\* loadPhrases once its GET has settled as m, `saved` being the Local Cache
\* item: whether it calls setPhrases, with what, and whether it POSTs
LoadPhrases(m, saved) ==
  IF m.status = 0
  THEN [set |-> ~saved.null, phrases |-> JSONparse(saved.val), post |-> FALSE,
        outcome |-> "network error"]
  ELSE IF ~Ok(m)
  THEN [set |-> FALSE, phrases |-> EmptyArr, post |-> FALSE, outcome |-> "error status"]
  ELSE IF ArrLen(m.phrases) > 0
  THEN [set |-> TRUE, phrases |-> m.phrases, post |-> FALSE, outcome |-> "remote"]
  ELSE [set |-> ~saved.null, phrases |-> JSONparse(saved.val),
        post |-> ~saved.null /\ ArrLen(JSONparse(saved.val)) > 0,
        outcome |-> "remote empty"]

\* the continuation of loadPhrases after `await fetch(GET)`
InitGetSettled ==
  \E m \in inbox :
    /\ m.flow = "init"
    /\ initPc = "get"
    /\ LET r == LoadPhrases(m, localStorage.phrases) IN
       /\ IF r.set THEN Render(r.phrases, syncKey, localStorage)
          ELSE UNCHANGED <<phrases, syncKey, localStorage, syncTimeoutRef, timers, thrown>>
       /\ net' = IF r.post THEN net \cup {Req("initpost", "POST", initKey, r.phrases)}
                 ELSE net
       /\ initPc' = IF r.post THEN "post" ELSE "done"
       /\ log' = LET l == [log EXCEPT !.init = r.outcome, !.got = m.phrases] IN
                 IF r.post THEN NotePost(l, initKey, r.phrases, FALSE) ELSE l
    /\ inbox' = inbox \ {m}
    /\ UNCHANGED <<currentPhrase, isLoading, initKey, translating, nextId>>
    /\ UNCHANGED endpointVars

\* the continuation of loadPhrases after `await fetch(POST)`: a rejected
\* fetch lands in the catch block, which reloads the Local Cache
InitPostSettled ==
  \E m \in inbox :
    /\ m.flow = "initpost"
    /\ initPc = "post"
    /\ IF m.status = 0 /\ ~localStorage.phrases.null
       THEN Render(JSONparse(localStorage.phrases.val), syncKey, localStorage)
       ELSE UNCHANGED <<phrases, syncKey, localStorage, syncTimeoutRef, timers, thrown>>
    /\ initPc' = "done"
    /\ inbox' = inbox \ {m}
    /\ UNCHANGED <<currentPhrase, isLoading, initKey, translating, nextId, net, log>>
    /\ UNCHANGED endpointVars

\* the callback of the save effect's setTimeout runs
TimerFires ==
  \E t \in timers :
    /\ timers' = timers \ {t}
    /\ net' = net \cup {Req("push", "POST", t.syncKey, t.phrases)}
    /\ log' = NotePost(log, t.syncKey, t.phrases, TRUE)
    /\ UNCHANGED <<thrown, localStorage, phrases, syncKey, currentPhrase, isLoading,
                   syncTimeoutRef, initPc, initKey, translating, nextId, inbox>>
    /\ UNCHANGED endpointVars

\* handleSubmit up to `await fetch("/api/translate")`
Submit(input) ==
  /\ initPc # "idle"
  /\ Trim(input) # <<>>
  /\ ~isLoading
  /\ LET existing == FindExisting(phrases, input) IN
     IF ~existing.null
     THEN /\ currentPhrase' = existing
          /\ UNCHANGED <<isLoading, translating>>
     ELSE /\ isLoading' = TRUE
          /\ translating' = Trim(input)
          /\ UNCHANGED currentPhrase
  /\ UNCHANGED <<thrown, localStorage, phrases, syncKey, syncTimeoutRef, timers, initPc,
                 initKey, nextId, net, inbox, log>>
  /\ UNCHANGED endpointVars

\* handleSubmit after a translation arrived: the phrase is added
Translated ==
  /\ isLoading
  /\ LET newPhrase == Phrase(Uuid(nextId), translating) IN
     /\ Render(ArrPrepend(newPhrase, phrases), syncKey, localStorage)
     /\ currentPhrase' = Some(newPhrase)
  /\ isLoading' = FALSE
  /\ translating' = <<>>
  /\ nextId' = nextId + 1
  /\ log' = NoteMutation(log)
  /\ UNCHANGED <<initPc, initKey, net, inbox>>
  /\ UNCHANGED endpointVars

\* handleSubmit, were its catch block to add the mock phrase to the collection
TranslateFailed_Adds ==
  /\ isLoading
  /\ Render(ArrPrepend(Phrase(Uuid(nextId), translating), phrases), syncKey, localStorage)
  /\ currentPhrase' = Some(Phrase(Uuid(nextId), translating))
  /\ isLoading' = FALSE
  /\ translating' = <<>>
  /\ nextId' = nextId + 1
  /\ UNCHANGED <<initPc, initKey, net, inbox, log>>
  /\ UNCHANGED endpointVars

\* handleSubmit when the translation failed: a mock phrase is shown
TranslateFailed ==
  /\ isLoading
  /\ currentPhrase' = Some(Phrase(Uuid(nextId), translating))
  /\ isLoading' = FALSE
  /\ translating' = <<>>
  /\ nextId' = nextId + 1
  /\ UNCHANGED <<thrown, localStorage, phrases, syncKey, syncTimeoutRef, timers, initPc,
                 initKey, net, inbox, log>>
  /\ UNCHANGED endpointVars

\* handleDeletePhrase, confirmed
DeletePhrase(phraseId) ==
  /\ initPc # "idle"
  /\ phraseId \in ArrIds(phrases)
  /\ Render(ArrWithout(phrases, phraseId), syncKey, localStorage)
  /\ currentPhrase' =
       IF ~currentPhrase.null /\ currentPhrase.phrase.id = phraseId
       THEN NoPhrase ELSE currentPhrase
  /\ log' = NoteMutation(log)
  /\ UNCHANGED <<isLoading, initPc, initKey, translating, nextId, net, inbox>>
  /\ UNCHANGED endpointVars

\* handleClearAll without `if (phrases.length === 0) return;`
ClearAll_NoGuard ==
  /\ initPc # "idle"
  /\ Render(EmptyArr, syncKey,
            [localStorage EXCEPT !.phrases = Item(JSONstringify(EmptyArr))])
  /\ currentPhrase' = NoPhrase
  /\ net' = IF syncKey # <<>> THEN net \cup {Req("clear", "POST", syncKey, EmptyArr)}
            ELSE net
  /\ log' = LET l == [NoteMutation(log) EXCEPT !.cleared = phrases] IN
            IF syncKey # <<>> THEN NotePost(l, syncKey, EmptyArr, FALSE) ELSE l
  /\ UNCHANGED <<isLoading, initPc, initKey, translating, nextId, inbox>>
  /\ UNCHANGED endpointVars

\* handleClearAll, confirmed
ClearAll ==
  /\ initPc # "idle"
  /\ ArrLen(phrases) # 0
  /\ Render(EmptyArr, syncKey,
            [localStorage EXCEPT !.phrases = Item(JSONstringify(EmptyArr))])
  /\ currentPhrase' = NoPhrase
  /\ net' = IF syncKey # <<>> THEN net \cup {Req("clear", "POST", syncKey, EmptyArr)}
            ELSE net
  /\ log' = LET l == [NoteMutation(log) EXCEPT !.cleared = phrases] IN
            IF syncKey # <<>> THEN NotePost(l, syncKey, EmptyArr, FALSE) ELSE l
  /\ UNCHANGED <<isLoading, initPc, initKey, translating, nextId, inbox>>
  /\ UNCHANGED endpointVars

\* handleSetSyncKey up to `await fetch(GET)`
SetSyncKey(newKey) ==
  /\ initPc # "idle"
  /\ Trim(newKey) # <<>>
  /\ IF Trim(newKey) # syncKey
     THEN Render(phrases, Trim(newKey),
                 [localStorage EXCEPT !.syncKey = Item(Trim(newKey))])
     ELSE /\ localStorage' = [localStorage EXCEPT !.syncKey = Item(Trim(newKey))]
          /\ UNCHANGED <<phrases, syncKey, syncTimeoutRef, timers, thrown>>
  /\ net' = net \cup {Req("rotate", "GET", Trim(newKey), EmptyArr)}
  /\ log' = [log EXCEPT !.rotations = @ + 1,
                        !.carried = Closure(Trim(newKey), phrases)]
  /\ UNCHANGED <<currentPhrase, isLoading, initPc, initKey, translating, nextId, inbox>>
  /\ UNCHANGED endpointVars

\* handleClearAll returning without effect: the collection is empty, or the
\* user declines at confirm(); only the observer notes the return
ClearAllReturns(confirmed) ==
  /\ initPc # "idle"
  /\ ArrLen(phrases) = 0 \/ ~confirmed
  /\ log' = [log EXCEPT !.returned =
               @ \cup {IF ArrLen(phrases) = 0 THEN "clearEmpty" ELSE "clearDeclined"}]
  /\ UNCHANGED <<thrown, localStorage, phrases, syncKey, currentPhrase, isLoading,
                 syncTimeoutRef, timers, initPc, initKey, translating, nextId,
                 net, inbox>>
  /\ UNCHANGED endpointVars

\* handleSetSyncKey returning at `if (!newKey.trim()) return;`
SetSyncKeyReturns(newKey) ==
  /\ initPc # "idle"
  /\ Trim(newKey) = <<>>
  /\ log' = [log EXCEPT !.returned = @ \cup {"rotateBlank"}]
  /\ UNCHANGED <<thrown, localStorage, phrases, syncKey, currentPhrase, isLoading,
                 syncTimeoutRef, timers, initPc, initKey, translating, nextId,
                 net, inbox>>
  /\ UNCHANGED endpointVars

\* handleSetSyncKey, were it to keep the collection in memory when the GET
\* returns an empty one (as loadPhrases does)
RotateSettled_Merge ==
  \E m \in inbox :
    /\ m.flow = "rotate"
    /\ IF Ok(m) /\ ArrLen(m.phrases) > 0 THEN Render(m.phrases, syncKey, localStorage)
       ELSE UNCHANGED <<phrases, syncKey, localStorage, syncTimeoutRef, timers, thrown>>
    /\ inbox' = inbox \ {m}
    /\ UNCHANGED <<currentPhrase, isLoading, initPc, initKey, translating, nextId,
                   net, log>>
    /\ UNCHANGED endpointVars

\* handleSetSyncKey, were it to go back to the key of Init when its GET fails
RotateSettled_RollBack ==
  \E m \in inbox :
    /\ m.flow = "rotate"
    /\ IF Ok(m) THEN Render(m.phrases, syncKey, localStorage)
       ELSE Render(phrases, initKey, [localStorage EXCEPT !.syncKey = Item(initKey)])
    /\ inbox' = inbox \ {m}
    /\ UNCHANGED <<currentPhrase, isLoading, initPc, initKey, translating, nextId,
                   net, log>>
    /\ UNCHANGED endpointVars

\* handleSetSyncKey after its GET has settled
RotateSettled ==
  \E m \in inbox :
    /\ m.flow = "rotate"
    /\ IF Ok(m) THEN Render(m.phrases, syncKey, localStorage)
       ELSE UNCHANGED <<phrases, syncKey, localStorage, syncTimeoutRef, timers, thrown>>
    /\ inbox' = inbox \ {m}
    /\ UNCHANGED <<currentPhrase, isLoading, initPc, initKey, translating, nextId,
                   net, log>>
    /\ UNCHANGED endpointVars

\* the fetches whose continuation reads the response
Awaited(flow) == flow \in {"init", "initpost", "rotate"}

\* the endpoint handles a GET of the client and answers
ServeGet(fault) ==
  \E m \in net :
    /\ m.op = "GET"
    /\ LET h == HandleGET(rateLimit, redisClient, redis, now, ClientIp,
                          StrKey(m.key), fault) IN
       /\ rateLimit' = h.rl
       /\ redisClient' = h.client
       /\ redis' = h.store
       /\ inbox' = inbox \cup {Settled(m.flow, h.resp.status, h.resp.phrases)}
    /\ net' = net \ {m}
    /\ UNCHANGED <<now, resp, posted, span, win>>
    /\ UNCHANGED <<thrown, localStorage, phrases, syncKey, currentPhrase, isLoading,
                   syncTimeoutRef, timers, initPc, initKey, translating, nextId, log>>
    /\ UNCHANGED <<translateRateLimit, handlers, headers>>

\* the endpoint handles a POST of the client and answers
ServePost(fault) ==
  \E m \in net :
    /\ m.op = "POST"
    /\ LET h == HandlePOST(rateLimit, redisClient, redis, now, ClientIp,
                           StrKey(m.key), ArrayBody(m.p), fault) IN
       /\ rateLimit' = h.rl
       /\ redisClient' = h.client
       /\ redis' = h.store
       /\ inbox' = IF Awaited(m.flow)
                   THEN inbox \cup {Settled(m.flow, h.resp.status, EmptyArr)}
                   ELSE inbox
    /\ net' = net \ {m}
    /\ UNCHANGED <<now, resp, posted, span, win>>
    /\ UNCHANGED <<thrown, localStorage, phrases, syncKey, currentPhrase, isLoading,
                   syncTimeoutRef, timers, initPc, initKey, translating, nextId, log>>
    /\ UNCHANGED <<translateRateLimit, handlers, headers>>

\* a rejected fetch, were the catch of a push to drop the Local Cache copy
NetworkError_DropsCache ==
  \E m \in net :
    /\ net' = net \ {m}
    /\ inbox' = IF Awaited(m.flow) THEN inbox \cup {Settled(m.flow, 0, EmptyArr)}
                ELSE inbox
    /\ localStorage' = IF Awaited(m.flow) THEN localStorage
                       ELSE [localStorage EXCEPT !.phrases = NoPhrasesItem]
    /\ UNCHANGED <<thrown, phrases, syncKey, currentPhrase, isLoading,
                   syncTimeoutRef, timers, initPc, initKey, translating, nextId, log>>
    /\ UNCHANGED endpointVars

\* a fetch of the client is rejected: the request never reaches the endpoint
NetworkError ==
  \E m \in net :
    /\ net' = net \ {m}
    /\ inbox' = IF Awaited(m.flow) THEN inbox \cup {Settled(m.flow, 0, EmptyArr)}
                ELSE inbox
    /\ UNCHANGED <<thrown, localStorage, phrases, syncKey, currentPhrase, isLoading,
                   syncTimeoutRef, timers, initPc, initKey, translating, nextId, log>>
    /\ UNCHANGED endpointVars

\* other data of the origin uses up the storage quota: from now on a write of
\* viet-phrases throws QuotaExceededError
StorageFills ==
  /\ ~localStorage.full
  /\ localStorage' = [localStorage EXCEPT !.full = TRUE]
  /\ UNCHANGED <<thrown, phrases, syncKey, currentPhrase, isLoading, syncTimeoutRef,
                 timers, initPc, initKey, translating, nextId, net, inbox, log>>
  /\ UNCHANGED endpointVars

\* the page before it is mounted (the useState and useRef initial values)
Unmounted ==
  /\ thrown = ""
  /\ phrases = EmptyArr
  /\ syncKey = <<>>
  /\ currentPhrase = NoPhrase
  /\ isLoading = FALSE
  /\ syncTimeoutRef = NoTimer
  /\ timers = {}
  /\ initPc = "idle"
  /\ initKey = <<>>
  /\ translating = <<>>
  /\ nextId = 0
  /\ net = {}
  /\ inbox = {}

\* the observer at the start; cache is the Local Cache collection of then,
\* cleared the collection the last Clear All removed (empty: none so far),
\* carried the new key of the last rotation with the collection then in memory
\* (watch: whether the observer follows the bursts of mutations), returned the
\* early returns the handlers of Clear All and of the rotation have taken
NoLog(cache, watch) ==
  [mutations |-> 0, rotations |-> 0, init |-> "pending", got |-> EmptyArr,
   key |-> <<>>, cache |-> cache, posts |-> 0, postsOfCache |-> 0,
   watch |-> watch, burst |-> 0, burstPosts |-> 0, burstClosed |-> TRUE,
   lastPost |-> NoTimer, cleared |-> EmptyArr, carried |-> NoTimer,
   returned |-> {}]

(***************************************************************************)
(* SpecEndpoint: every kind of request, at one instant.                    *)
(***************************************************************************)
GetKeys == {NoKey, StrKey(<<>>), StrKey(KeyA), StrKey(KeyB), StrKey(Key5),
            StrKey(KeyDash), StrKey(Key32), StrKey(Key33)}
PostKeys == {NoKey, NumKey, StrKey(KeyA), StrKey(KeyB), StrKey(KeyDash)}
PostBodies ==
  {NotArray, ArrayBody(EmptyArr), ArrayBody(Arr(<<P2, P1>>, 0)),
   ArrayBody(Arr(<<P1>>, MaxPhrases - 1)), ArrayBody(Arr(<<P1>>, MaxPhrases))}

GetRequest ==
  \E id \in Identifiers, k \in GetKeys, fault \in BOOLEAN :
    EndpointGET(id, k, fault, FALSE)

PostRequest ==
  \E id \in Identifiers, k \in PostKeys, p \in PostBodies, fault \in BOOLEAN :
    EndpointPOST(id, k, p, fault, FALSE)

NextEndpoint == GetRequest \/ PostRequest

\* an empty Remote Store, and no browser with the page open
InitEndpoint ==
  /\ InitServer
  /\ redis = << >>
  /\ Unmounted
  /\ localStorage = [syncKey |-> NoKeyItem, phrases |-> NoPhrasesItem, full |-> FALSE]
  /\ log = NoLog(EmptyArr, FALSE)

SpecEndpoint == InitEndpoint /\ [][NextEndpoint]_vars

(***************************************************************************)
(* SpecRate: one client's valid requests over time.                        *)
(***************************************************************************)
RateGet ==
  \E id \in Identifiers, restart \in BOOLEAN :
    EndpointGET(id, StrKey(KeyA), FALSE, restart)

RatePost ==
  \E id \in Identifiers, restart \in BOOLEAN :
    EndpointPOST(id, StrKey(KeyA), ArrayBody(EmptyArr), FALSE, restart)

NextRate == RateGet \/ RatePost \/ Tick

SpecRate == InitEndpoint /\ [][NextRate]_vars

(***************************************************************************)
(* SpecShared: two clients POST under the same sync key; their requests    *)
(* are in flight together and the endpoint handles them in any order.      *)
(***************************************************************************)
SharedPosts == 3
Clients == {"ip1", "ip2"}
SharedBodies == {EmptyArr, Arr(<<P1>>, 0), Arr(<<P2, P1>>, 0)}

\* the requests the endpoint has handled so far (admitted ones)
Handled ==
  LET RECURSIVE Sum(_)
      Sum(S) == IF S = {} THEN 0
                ELSE LET c == CHOOSE x \in S : TRUE
                     IN rateLimit[c].count + Sum(S \ {c})
  IN Sum(DOMAIN rateLimit)

\* client c sends POST {KeyA, p}; the observer notes it as the POST issued last
IssuePost(c, p) ==
  /\ Cardinality(net) + Handled < SharedPosts
  /\ net' = net \cup {Req(c, "POST", KeyA, p)}
  /\ log' = NotePost(log, KeyA, p, FALSE)
  /\ UNCHANGED <<thrown, localStorage, phrases, syncKey, currentPhrase, isLoading,
                 syncTimeoutRef, timers, initPc, initKey, translating, nextId, inbox>>
  /\ UNCHANGED endpointVars

\* the endpoint handles one of the POSTs in flight
ProcessPost(fault) ==
  \E m \in net :
    /\ LET h == HandlePOST(rateLimit, redisClient, redis, now, m.flow,
                           StrKey(m.key), ArrayBody(m.p), fault) IN
       /\ rateLimit' = h.rl
       /\ redisClient' = h.client
       /\ redis' = h.store
       /\ resp' = Seen("POST", m.flow, StrKey(m.key), ArrayBody(m.p), h)
       /\ posted' = IF h.resp.status = 200 THEN Put(posted, m.key, m.p) ELSE posted
    /\ net' = net \ {m}
    /\ UNCHANGED <<now, span, win>>
    /\ UNCHANGED <<thrown, localStorage, phrases, syncKey, currentPhrase, isLoading,
                   syncTimeoutRef, timers, initPc, initKey, translating, nextId,
                   inbox, log>>
    /\ UNCHANGED <<translateRateLimit, handlers, headers>>

InitShared ==
  /\ InitServer
  /\ redis = << >>
  /\ Unmounted
  /\ localStorage = [syncKey |-> NoKeyItem, phrases |-> NoPhrasesItem, full |-> FALSE]
  /\ log = NoLog(EmptyArr, TRUE)

NextShared ==
  \/ \E c \in Clients, p \in SharedBodies : IssuePost(c, p)
  \/ \E fault \in BOOLEAN : ProcessPost(fault)

SpecShared == InitShared /\ [][NextShared]_vars

(***************************************************************************)
(* Spec: one browser, its user, the network and the endpoint.              *)
(***************************************************************************)
KeyG == <<"k","3","y","0","g","e","n","1">>
GeneratedKeys == {k \in {KeyG} : Len(k) = GeneratedKeyLen}
L1 == Phrase(<<"l","1">>, <<"H","i">>)
R1 == Phrase(<<"r","1">>, <<"N","o">>)
Inputs == { <<"H","i">>, <<"n","o"," ">>, <<" ">> }
RotationKeys == { KeyB, <<" ">> }

\* what the device and the Remote Store may hold when the page is opened
StoredKeys == {NoKeyItem, Item(KeyA)}
StoredPhrases == {NoPhrasesItem, Item(JSONstringify(EmptyArr)),
                  Item(JSONstringify(Arr(<<L1>>, 0)))}
RemoteValues == {NullItem(JSONstringify(EmptyArr)), Item(JSONstringify(EmptyArr)),
                 Item(JSONstringify(Arr(<<R1>>, 0)))}

\* the Remote Store holding v under the device's key
RemoteWith(k, v) == IF v.null THEN << >> ELSE Put(<< >>, RedisKey(k), v.val)

Opened(watch) ==
  /\ InitServer
  /\ Unmounted
  /\ \E k \in StoredKeys, ph \in StoredPhrases, v \in RemoteValues :
       /\ localStorage = [syncKey |-> k, phrases |-> ph, full |-> FALSE]
       /\ redis = RemoteWith(IF k.null THEN KeyG ELSE k.val, v)
       /\ log = NoLog(IF ph.null THEN EmptyArr ELSE JSONparse(ph.val), watch)

Init == Opened(FALSE)

MayMutate(max) == log.mutations < max

Next ==
  \/ \E g \in GeneratedKeys : Mount(g)
  \/ InitGetSettled
  \/ InitPostSettled
  \/ TimerFires
  \/ \E input \in Inputs : nextId < MaxIds /\ Submit(input)
  \/ MayMutate(MaxMutations) /\ Translated
  \/ TranslateFailed
  \/ \E id \in ArrIds(phrases) : MayMutate(MaxMutations) /\ DeletePhrase(id)
  \/ MayMutate(MaxMutations) /\ ClearAll
  \/ \E k \in RotationKeys : log.rotations < MaxRotations /\ SetSyncKey(k)
  \/ RotateSettled
  \/ \E fault \in BOOLEAN : ServeGet(fault)
  \/ \E fault \in BOOLEAN : ServePost(fault)
  \/ NetworkError

Spec == Init /\ [][Next]_vars

(***************************************************************************)
(* SpecLoad: the page is opened and left alone.                            *)
(***************************************************************************)
NextLoad ==
  \/ \E g \in GeneratedKeys : Mount(g)
  \/ InitGetSettled
  \/ InitPostSettled
  \/ TimerFires
  \/ \E fault \in BOOLEAN : ServeGet(fault)
  \/ \E fault \in BOOLEAN : ServePost(fault)
  \/ NetworkError

SpecLoad == Init /\ [][NextLoad]_vars

(***************************************************************************)
(* SpecEdit: the user edits the collection.                                *)
(***************************************************************************)
NextEdit ==
  \/ \E g \in GeneratedKeys : Mount(g)
  \/ InitGetSettled
  \/ InitPostSettled
  \/ TimerFires
  \/ \E input \in Inputs : nextId < MaxIds /\ Submit(input)
  \/ MayMutate(MaxMutations) /\ Translated
  \/ TranslateFailed
  \/ \E id \in ArrIds(phrases) : MayMutate(MaxMutations) /\ DeletePhrase(id)
  \/ MayMutate(MaxMutations) /\ ClearAll
  \/ \E fault \in BOOLEAN : ServeGet(fault)
  \/ \E fault \in BOOLEAN : ServePost(fault)
  \/ NetworkError

SpecEdit == Init /\ [][NextEdit]_vars

(***************************************************************************)
(* SpecRotate: the page is opened and the user switches to another sync    *)
(* key, under which the Remote Store may hold a collection of its own.     *)
(***************************************************************************)
R2 == Phrase(<<"r","2">>, <<"Y","o">>)
TargetValues == {NullItem(JSONstringify(EmptyArr)), Item(JSONstringify(EmptyArr)),
                 Item(JSONstringify(Arr(<<R2>>, 0)))}

InitRotate ==
  /\ InitServer
  /\ Unmounted
  /\ \E k \in StoredKeys, ph \in StoredPhrases, v \in RemoteValues, w \in TargetValues :
       /\ localStorage = [syncKey |-> k, phrases |-> ph, full |-> FALSE]
       /\ redis = LET own == RemoteWith(IF k.null THEN KeyG ELSE k.val, v) IN
                  IF w.null THEN own ELSE Put(own, RedisKey(KeyB), w.val)
       /\ log = NoLog(IF ph.null THEN EmptyArr ELSE JSONparse(ph.val), FALSE)

NextRotate ==
  \/ \E g \in GeneratedKeys : Mount(g)
  \/ InitGetSettled
  \/ InitPostSettled
  \/ TimerFires
  \/ \E k \in RotationKeys : log.rotations < MaxRotations /\ SetSyncKey(k)
  \/ RotateSettled
  \/ \E fault \in BOOLEAN : ServeGet(fault)
  \/ \E fault \in BOOLEAN : ServePost(fault)
  \/ NetworkError

SpecRotate == InitRotate /\ [][NextRotate]_vars

(***************************************************************************)
(* SpecQuota: the user adds and deletes phrases while the storage quota    *)
(* may run out.  React unmounts Home once an error has left an effect, so  *)
(* Home takes no step after that; timers already armed still fire.         *)
(***************************************************************************)
StillMounted == thrown = ""

NextQuota ==
  \/ \E g \in GeneratedKeys : Mount(g)
  \/ StillMounted /\ InitGetSettled
  \/ StillMounted /\ InitPostSettled
  \/ TimerFires
  \/ \E input \in Inputs : StillMounted /\ nextId < MaxIds /\ Submit(input)
  \/ StillMounted /\ MayMutate(MaxMutations) /\ Translated
  \/ \E id \in ArrIds(phrases) :
        StillMounted /\ MayMutate(MaxMutations) /\ DeletePhrase(id)
  \/ StorageFills
  \/ ServeGet(FALSE)
  \/ ServePost(FALSE)

SpecQuota == Init /\ [][NextQuota]_vars

(***************************************************************************)
(* SpecBurst: once the page has loaded, the user makes up to BurstLen      *)
(* mutations; the observer follows the bursts (the mutations between two   *)
(* firings of the debounce timer).                                         *)
(***************************************************************************)
Loaded == initPc = "done"

NextBurst ==
  \/ \E g \in GeneratedKeys : Mount(g)
  \/ InitGetSettled
  \/ InitPostSettled
  \/ TimerFires
  \/ \E input \in Inputs : Loaded /\ nextId < MaxBurstIds /\ Submit(input)
  \/ MayMutate(BurstLen) /\ Translated
  \/ \E id \in ArrIds(phrases) : Loaded /\ MayMutate(BurstLen) /\ DeletePhrase(id)
  \/ Loaded /\ MayMutate(BurstLen) /\ ClearAll
  \/ ServeGet(FALSE)
  \/ ServePost(FALSE)

SpecBurst == Opened(TRUE) /\ [][NextBurst]_vars


----
(***************************************************************************)
(* Properties of the Sync Endpoint.                                        *)
(***************************************************************************)
IsGet == resp.req.op = "GET"
IsPost == resp.req.op = "POST"
\* the request handled last carried a sync key the pattern rejects, or none
BadKey ==
  resp.req.op # "none"
  /\ (resp.req.key.type # "string" \/ ~SyncKeyPattern(resp.req.key.str))
StoredUnder(k) == RedisGet(redis, RedisKey(k))

\* C1 (SpecEndpoint): a GET answered 200 for key K returns the collection of
\* the last POST answered 200 for K, the empty list included.
C1_RoundTrip ==
  (IsGet /\ resp.res.status = 200 /\ Has(posted, resp.req.key.str))
    => resp.res.phrases = posted[resp.req.key.str]

C1_Witness ==
  /\ IsGet /\ resp.res.status = 200
  /\ Has(posted, resp.req.key.str)
  /\ posted[resp.req.key.str] = EmptyArr
  /\ resp.res.phrases = EmptyArr
  /\ \E k \in DOMAIN posted : ArrLen(posted[k]) = MaxPhrases

PostOfLen(r, n) == r.req.op = "POST" /\ r.req.p.isArray /\ ArrLen(r.req.p.arr) = n
PostOver(r) == r.req.op = "POST" /\ r.req.p.isArray /\ ArrLen(r.req.p.arr) > MaxPhrases
\* a POST that passes the key validation, is admitted and meets a working store
Processable(r) == KeyError(r.req.key) = "" /\ r.admitted /\ ~r.threw

C4_Original == span.n = maxRequests + 1 => resp.res.status = 429

\* C4 amended (SpecRate): of the requests one identifier issues within one
\* rate-limit window (the 60 s that follow the request opening it), the 61st
\* and later are answered 429 and the first 60 are not; the first request after
\* the window has elapsed opens a new window and succeeds.
C4_WindowLimit ==
  /\ win.n > maxRequests => resp.res.status = 429
  /\ win.n \in 1..maxRequests => resp.res.status = 200

C4_Witness ==
  /\ win.n = 1 /\ win.start > windowMs /\ resp.res.status = 200
  /\ Has(rateLimit, resp.req.identifier)
  /\ rateLimit[resp.req.identifier].count = 1

----
(***************************************************************************)
(* Properties of the Sync Coordinator.                                     *)
(***************************************************************************)
\* the Local Cache entry viet-phrases holds exactly the collection a
LocalCacheIs(ls, a) == ~ls.phrases.null /\ JSONparse(ls.phrases.val) = a
\* Init found the remote collection of the device's key empty or absent, and
\* a non-empty Local Cache
RemoteEmptyLocalFull == log.init = "remote empty" /\ ArrLen(log.cache) > 0

\* C5 as stated (SpecLoad): when Init finds the remote collection of key K
\* empty and the Local Cache L non-empty, the in-memory collection is L and,
\* the user making no mutation, exactly one POST carrying {K, L} is issued.
C5_Original ==
  RemoteEmptyLocalFull => (phrases = log.cache /\ log.postsOfCache = 1)

\* C6 as stated (SpecLoad): when the GET of Init is rejected (network error),
\* the in-memory collection is the Local Cache collection and, the user making
\* no mutation, the client issues no POST.
C6_Original ==
  log.init = "network error" => (phrases = log.cache /\ log.posts = 0)

\* C7 as stated (SpecLoad): when the GET of Init is answered with an error
\* status (500, 429 or 400), the in-memory collection becomes the Local Cache
\* collection.
C7_Original == log.init = "error status" => phrases = log.cache

\* C8 (SpecLoad): when the GET of Init returned a non-empty collection R, the
\* in-memory collection is R after Init, whatever the Local Cache held.
C8_RemoteWins ==
  (log.init # "pending" /\ ArrLen(log.got) > 0) => phrases = log.got

C8_Witness ==
  /\ initPc = "done" /\ log.init = "remote"
  /\ log.got = Arr(<<R1>>, 0)
  /\ log.cache = Arr(<<L1>>, 0)
  /\ phrases = log.got

\* C9 as stated (SpecEdit): after every mutation (add, delete of any phrase,
\* the last one included, clear-all) the Local Cache entry viet-phrases equals
\* the in-memory collection, also when that collection is empty.
C9_Original ==
  [][ log'.mutations = log.mutations + 1 => LocalCacheIs(localStorage', phrases')
    ]_vars

\* C10 as stated (SpecBurst): once the debounce timer has fired after a burst
\* of five mutations, exactly one POST has been issued since the burst began,
\* and it carries the collection as it is after the fifth mutation.
C10_Original ==
  (log.burst = BurstLen /\ log.burstClosed) =>
    (log.burstPosts = 1 /\ log.lastPost = Closure(syncKey, phrases))

\* the timers that fired in a step: the callbacks that left the pending set
Fired(before, after) == before \ after

\* C11 as stated (SpecEdit): at most one push timer is pending at any time,
\* and the POST of a timer that fires carries the sync key and the collection
\* that are in memory when it fires.
C11_Original ==
  [][ /\ Cardinality(timers') <= 1
      /\ \A t \in Fired(timers, timers') : t = Closure(syncKey, phrases)
    ]_vars

\* the step is a Clear All: the observer has noted the collection it removed
Cleared == log'.mutations = log.mutations + 1 /\ log'.cleared # log.cleared

\* C12 as stated (SpecEdit): Clear All empties the in-memory collection,
\* writes the empty list to the Local Cache and at once issues a POST of the
\* empty list; after it no POST carrying the collection it removed is issued,
\* also when a debounce timer was pending at the moment of the clear.
C12_Original ==
  [][ /\ Cleared =>
            /\ phrases' = EmptyArr
            /\ LocalCacheIs(localStorage', EmptyArr)
            /\ Req("clear", "POST", syncKey, EmptyArr) \in net'
      /\ ArrLen(log.cleared) > 0 =>
            \A t \in Fired(timers, timers') : t.phrases # log.cleared
    ]_vars

\* the step is the first half of handleSetSyncKey
Rotated == log'.rotations = log.rotations + 1

\* C13 (SpecRotate): a rotation to key N stores N in the Local Cache, makes it
\* the in-memory key and sends GET /phrases?syncKey=N; when that GET is
\* answered ok, the in-memory collection becomes the collection returned,
\* the empty one included.
C13_RotationReplaces ==
  [][ /\ Rotated =>
            /\ syncKey' = log'.carried.syncKey
            /\ syncKey' \in { Trim(k) : k \in RotationKeys }
            /\ localStorage'.syncKey = Item(syncKey')
            /\ Req("rotate", "GET", syncKey', EmptyArr) \in net'
      /\ \A m \in inbox \ inbox' :
            (m.flow = "rotate" /\ Ok(m)) => phrases' = m.phrases
    ]_vars

C13_Witness ==
  /\ log.rotations = 1 /\ ArrLen(log.carried.phrases) > 0
  /\ syncKey = KeyB /\ localStorage.syncKey = Item(KeyB)
  /\ initPc = "done"
  /\ \A m \in net \cup inbox : m.flow # "rotate"
  /\ phrases = EmptyArr
  /\ ~LocalCacheIs(localStorage, EmptyArr)

\* C14 as stated (SpecRotate): during and after a rotation from key O to key
\* N the client issues no POST carrying key N together with the collection
\* it held under O.
C14_Original ==
  [][ ArrLen(log.carried.phrases) > 0 =>
        \A t \in Fired(timers, timers') : t # log.carried
    ]_vars

\* no two entries of the collection have the same lower-cased english
UniqueEnglish(a) ==
  \A i, j \in 1..Len(a.items) :
    ToLowerCase(a.items[i].english) = ToLowerCase(a.items[j].english) => i = j

\* C15 as stated (SpecEdit): the english values of the in-memory collection
\* stay case-insensitively unique, and a translation is requested only for a
\* text whose trimmed lower-cased form matches no entry of the collection.
C15_Original ==
  [][ /\ UniqueEnglish(phrases) => UniqueEnglish(phrases')
      /\ (isLoading' /\ ~isLoading) => FindExisting(phrases, translating').null
    ]_vars

\* the step renders Home with a collection and a key the save effect stores,
\* while the quota leaves no room for the value
StoreStepOverQuota ==
  /\ <<phrases', syncKey'>> # <<phrases, syncKey>>
  /\ ArrLen(phrases') > 0 /\ syncKey' # <<>>
  /\ localStorage.full

\* C16 (SpecQuota): when the save effect's write of the collection to the
\* Local Cache exceeds the storage quota, the QuotaExceededError leaves the
\* effect uncaught; the Local Cache entry keeps its value and the effect
\* does not go on to arm the debounce timer.
C16_QuotaPropagates ==
  [][ StoreStepOverQuota =>
        /\ thrown' = QuotaExceededError
        /\ localStorage'.phrases = localStorage.phrases
        /\ timers' = timers /\ syncTimeoutRef' = syncTimeoutRef
    ]_vars

C16_Witness ==
  /\ thrown = QuotaExceededError
  /\ localStorage.full
  /\ ArrLen(phrases) > 0 /\ syncKey # <<>>
  /\ ~LocalCacheIs(localStorage, phrases)
  /\ log.mutations > 0

\* the step settles a push: the POST of a debounce timer or of Clear All
\* reaches the endpoint and is answered (200, 400, 429 or 500), or is rejected
PushSettles == \E m \in net \ net' : m.flow \in {"push", "clear"}

C18_LastProcessedWins ==
  \A k \in DOMAIN posted :
    /\ ~StoredUnder(k).null
    /\ StoredUnder(k).text = JSONstringify(posted[k])

\* both clients' POSTs were handled, the one issued first being handled last
C18_Witness ==
  /\ net = {} /\ DOMAIN rateLimit = Clients
  /\ Has(posted, KeyA)
  /\ log.lastPost.phrases # posted[KeyA]
  /\ ArrLen(log.lastPost.phrases) > 0 /\ ArrLen(posted[KeyA]) > 0
  /\ JSONparse(StoredUnder(KeyA).text) = posted[KeyA]
  /\ ~resp.threw

\* the request handled in the step is a GET with a valid key, admitted, the
\* store reachable, and nothing is stored under the key
GetOfAbsentKey ==
  /\ resp'.req.op = "GET" /\ KeyError(resp'.req.key) = ""
  /\ resp'.admitted /\ ~resp'.threw
  /\ RedisGet(redis, RedisKey(resp'.req.key.str)).null

\* C19 (SpecEndpoint): a GET for a valid sync key under which the Remote
\* Store holds nothing is answered 200 with the empty collection and leaves
\* the Remote Store as it was.
C19_AbsentKeyEmpty ==
  [][ GetOfAbsentKey =>
        /\ resp'.res.status = 200
        /\ resp'.res.phrases = EmptyArr
        /\ redis' = redis
    ]_vars

C19_Witness ==
  /\ IsGet /\ resp.req.key = StrKey(Key32)
  /\ resp.res.status = 200 /\ resp.res.phrases = EmptyArr
  /\ StoredUnder(Key32).null
  /\ ~StoredUnder(KeyA).null /\ ArrLen(JSONparse(StoredUnder(KeyA).text)) > 0

\* the Remote Store after the endpoint has handled the POST of resp' again
StoreAfterRepeat ==
  HandlePOST(rateLimit', redisClient', redis', now', resp'.req.identifier,
             resp'.req.key, resp'.req.p, FALSE).store

\* C20 (SpecEndpoint): a GET leaves every Remote Store value as it was, and
\* handling a POST that was answered 200 once more leaves the Remote Store
\* as the first handling left it.
C20_Idempotent ==
  [][ /\ resp'.req.op = "GET" => redis' = redis
      /\ (resp'.req.op = "POST" /\ resp'.res.status = 200) => StoreAfterRepeat = redis'
    ]_vars

\* a non-empty collection was stored by a POST that was not the client's first
C20_Witness ==
  /\ IsPost /\ resp.res.status = 200 /\ resp.req.key = StrKey(KeyB)
  /\ ArrLen(resp.req.p.arr) = 2
  /\ StoredUnder(KeyB).text = JSONstringify(resp.req.p.arr)
  /\ rateLimit[resp.req.identifier].count >= 2
  /\ ~StoredUnder(KeyA).null

\* the answer of the handler when the Remote Store call of a GET throws
GetWhenStoreThrows(identifier, k) ==
  HandleGET(rateLimit, redisClient, redis, now, identifier, k, TRUE)
\* the answer of the handler when the Remote Store call of a POST throws
PostWhenStoreThrows(identifier, k, p) ==
  HandlePOST(rateLimit, redisClient, redis, now, identifier, k, p, TRUE)

\* C21 (SpecEndpoint): in every state the endpoint reaches, a request that
\* gets as far as the Remote Store (admitted by the rate limiter, valid key,
\* valid body) and finds it throwing is answered by the handler itself:
\* 500 "Failed to load phrases" for a GET, 500 "Failed to save phrases" for
\* a POST, with the Remote Store left as it was.
C21_StoreFailureIs500 ==
  /\ \A id \in Identifiers, k \in GetKeys :
       GetWhenStoreThrows(id, k).used =>
         /\ GetWhenStoreThrows(id, k).resp = Response(500, "Failed to load phrases", EmptyArr)
         /\ GetWhenStoreThrows(id, k).store = redis
  /\ \A id \in Identifiers, k \in PostKeys, p \in PostBodies :
       PostWhenStoreThrows(id, k, p).used =>
         /\ PostWhenStoreThrows(id, k, p).resp = Response(500, "Failed to save phrases", EmptyArr)
         /\ PostWhenStoreThrows(id, k, p).store = redis

\* a POST of a non-empty collection met a throwing store after an earlier
\* POST had stored a value under the same key
C21_Witness ==
  /\ IsPost /\ resp.used /\ resp.res = Response(500, "Failed to save phrases", EmptyArr)
  /\ ArrLen(resp.req.p.arr) = 2
  /\ ~StoredUnder(resp.req.key.str).null
  /\ StoredUnder(resp.req.key.str).text # JSONstringify(resp.req.p.arr)

\* the message of the first constraint the body {syncKey: k, phrases: p}
\* violates, in the order of the claim; "" when it violates none
FirstViolated(k, p) ==
  IF k.type # "string" \/ k.str = <<>> THEN "Sync key is required"
  ELSE IF Len(k.str) < KeyMinLen \/ Len(k.str) > KeyMaxLen
          \/ \E i \in 1..Len(k.str) : k.str[i] \notin AlnumChars
  THEN "Invalid sync key format"
  ELSE IF ~p.isArray THEN "Phrases must be an array"
  ELSE IF ArrLen(p.arr) > MaxPhrases THEN "Too many phrases (max 10000)"
  ELSE ""

Mounts == initPc = "idle" /\ initPc' # "idle"
\* the Init GET requests on their way to the endpoint
InitGets(n) == {m \in n : m.flow = "init" /\ m.op = "GET"}

\* C23 (SpecLoad): the mount effect sends one GET, for the key the Local
\* Cache holds when it holds one and for a newly generated key otherwise;
\* when the GET is sent the Local Cache holds that key; a key the Local Cache
\* held before is left as it was; and nothing later changes the stored key.
C23_KeyPersistedAndReused ==
  [][ /\ Mounts =>
           /\ \E m \in InitGets(net') :
                /\ InitGets(net') = {m}
                /\ m.key = syncKey'
                /\ localStorage'.syncKey = Item(m.key)
           /\ ~localStorage.syncKey.null =>
                /\ localStorage'.syncKey = localStorage.syncKey
                /\ syncKey' = localStorage.syncKey.val
           /\ localStorage.syncKey.null => syncKey' \in GeneratedKeys
      /\ initPc # "idle" => localStorage'.syncKey = localStorage.syncKey
    ]_vars

\* the page was opened on a device holding a key and phrases; the GET for
\* that key has been answered and the key is still the stored one
C23_Witness ==
  /\ initPc = "done" /\ syncKey = KeyA /\ localStorage.syncKey = Item(KeyA)
  /\ log.key = KeyA /\ ArrLen(phrases) > 0

----
(***************************************************************************)
(* SpecGenerate: the page is opened on a device that holds no key.  A      *)
(* value of Math.random() is written as the digits of its fraction in base *)
(* 36 (none for the value 0).                                              *)
(***************************************************************************)
Base36Chars == DigitChars \o LowerChars

\* Math.random() returning 0, 1/36 and 35/36 + 35/1296
RandomZero == <<>>
RandomValues == {RandomZero, <<1>>, <<35, 35>>}

\* x.toString(36) for 0 <= x < 1
ToString36(x) ==
  IF x = <<>> THEN <<"0">>
  ELSE <<"0", ".">> \o [i \in 1..Len(x) |-> Base36Chars[x[i] + 1]]

\* s[i] of a string joined into an array: undefined joins as the empty string
JoinedCharAt(s, i) == IF i + 1 <= Len(s) THEN <<s[i + 1]>> ELSE <<>>

RECURSIVE Join(_)
\* Array.prototype.join("") of an array of strings
Join(parts) == IF parts = <<>> THEN <<>> ELSE Head(parts) \o Join(Tail(parts))

\* generateSyncKey with draws[i] the i-th value of Math.random()
generateSyncKey(draws) ==
  Join([i \in 1..GeneratedKeyLen |-> JoinedCharAt(ToString36(draws[i]), 2)])

\* the mount effect on a device without a key
MountGenerating ==
  \E draws \in [1..GeneratedKeyLen -> RandomValues] : Mount(generateSyncKey(draws))

NextGenerate ==
  \/ MountGenerating
  \/ ServeGet(FALSE)
  \/ InitGetSettled

InitGenerate ==
  /\ InitServer
  /\ Unmounted
  /\ redis = << >>
  /\ localStorage = [syncKey |-> NoKeyItem, phrases |-> NoPhrasesItem, full |-> FALSE]
  /\ log = NoLog(EmptyArr, FALSE)

SpecGenerate == InitGenerate /\ [][NextGenerate]_vars

\* C24 as stated (SpecGenerate): the key the mount effect generates has
\* exactly 8 characters, each of 0-9 or a-z, and the GET the effect sends
\* with it passes the endpoint's key validation.
C24_Original ==
  /\ initPc # "idle" =>
       /\ Len(syncKey) = GeneratedKeyLen
       /\ \A i \in 1..Len(syncKey) : syncKey[i] \in Range(Base36Chars)
       /\ SyncKeyPattern(syncKey)
  /\ \A m \in inbox : m.flow = "init" => m.status # 400

\* POSTs have been issued, none is in flight, and the Remote Store holds
\* nothing under the key: every POST so far has failed
AllPostsFailed ==
  /\ log.posts > 0
  /\ StoredUnder(syncKey).null
  /\ \A m \in net : m.op # "POST"

\* the step is a mutation of the collection by the user
Mutates == log'.mutations = log.mutations + 1

\* after the step a POST of the key and collection now in memory is pending
\* behind the debounce timer or has just been sent
PushesLatest ==
  \/ Closure(syncKey', phrases') \in timers'
  \/ \E m \in net' \ net : m.op = "POST" /\ m.key = syncKey' /\ m.p = phrases'

\* C25 as stated (SpecEdit): the settling of a push arms no timer and sends
\* no request; and the first mutation after the pushes have failed triggers
\* a POST that carries the collection as the mutation left it.
C25_Original ==
  [][ /\ PushSettles => (timers' = timers /\ net' \subseteq net)
      /\ (AllPostsFailed /\ timers = {} /\ Mutates) => PushesLatest
    ]_vars

----
(***************************************************************************)
(* The translation endpoint (translate/route.ts), as far as its rate limit *)
(* and its answers go, and SpecLimits: two identifiers sending requests to *)
(* both endpoints within one window.                                       *)
(***************************************************************************)
translateMaxRequests == 20
MaxTextLen == 500

\* translate/route.ts checkRateLimit(identifier): the new map and the verdict
checkRateLimit_translate(rl, identifier, t) ==
  IF ~Has(rl, identifier) \/ t > rl[identifier].resetTime
  THEN [map |-> Put(rl, identifier, [count |-> 1, resetTime |-> t + windowMs]),
        ok |-> TRUE]
  ELSE IF rl[identifier].count >= translateMaxRequests
  THEN [map |-> rl, ok |-> FALSE]
  ELSE [map |-> Put(rl, identifier,
                    [count |-> rl[identifier].count + 1,
                     resetTime |-> rl[identifier].resetTime]),
        ok |-> TRUE]

\* body.text undefined
NoText == [type |-> "undefined", str |-> <<>>]
Text(s) == [type |-> "string", str |-> s]

\* POST /api/translate {text}: apiKey = ANTHROPIC_API_KEY is set; upstream =
\* what the call of the translation service does
HandleTranslate(rl, t, identifier, text, apiKey, upstream) ==
  LET lim == checkRateLimit_translate(rl, identifier, t)
      Answer(r, admitted) ==
        [rl |-> lim.map, resp |-> r, admitted |-> admitted, used |-> FALSE,
         threw |-> FALSE]
  IN
  IF ~lim.ok THEN Answer(TooMany, FALSE)
  ELSE IF text.type # "string" \/ text.str = <<>>
  THEN Answer(Response(400, "Text is required", EmptyArr), TRUE)
  ELSE IF Len(Trim(text.str)) = 0
  THEN Answer(Response(400, "Text cannot be empty", EmptyArr), TRUE)
  ELSE IF Len(text.str) > MaxTextLen
  THEN Answer(Response(400, "Text is too long (max 500 characters)", EmptyArr), TRUE)
  ELSE IF ~apiKey
  THEN Answer(Response(500, "API key not configured", EmptyArr), TRUE)
  ELSE IF upstream = "error"
  THEN Answer(Response(500, "Translation service error", EmptyArr), TRUE)
  ELSE IF upstream = "empty"
  THEN Answer(Response(500, "No translation received", EmptyArr), TRUE)
  ELSE IF upstream = "throws"
  THEN Answer(Response(500, "Translation failed", EmptyArr), TRUE)
  ELSE Answer(Response(200, "", EmptyArr), TRUE)

\* POST /api/translate {text} arriving from `identifier`
EndpointTranslate(identifier, text, apiKey, upstream) ==
  LET h == HandleTranslate(translateRateLimit, now, identifier, text, apiKey, upstream) IN
  /\ translateRateLimit' = h.rl
  /\ resp' = Seen("TRANSLATE", identifier, NoKey, NotArray, h)
  /\ UNCHANGED <<headers, now, rateLimit, redisClient, handlers, redis, posted, span, win>>
  /\ UNCHANGED clientVars

\* the requests the second identifier sends to each endpoint
OtherRequests == 1

\* translation requests: the text, whether ANTHROPIC_API_KEY is set, and what
\* the translation service does
TranslateRequest(text, apiKey, upstream) ==
  [text |-> text, apiKey |-> apiKey, upstream |-> upstream]
TranslateRequests ==
  {TranslateRequest(NoText, TRUE, "ok"),
   TranslateRequest(Text(<<" ">>), TRUE, "ok"),
   TranslateRequest(Text([i \in 1..(MaxTextLen + 1) |-> "x"]), TRUE, "ok"),
   TranslateRequest(Text(<<"H","i">>), FALSE, "ok"),
   TranslateRequest(Text(<<"H","i">>), TRUE, "error"),
   TranslateRequest(Text(<<"H","i">>), TRUE, "empty"),
   TranslateRequest(Text(<<"H","i">>), TRUE, "throws"),
   TranslateRequest(Text(<<"H","i">>), TRUE, "ok")}

\* the identifier may send a further request to the endpoint keeping map rl
MaySend(rl, c) ==
  IF c = ClientIp \/ ~Has(rl, c) THEN TRUE ELSE rl[c].count < OtherRequests

LimitGet ==
  \E c \in Clients : MaySend(rateLimit, c) /\ EndpointGET(c, StrKey(KeyA), FALSE, FALSE)
LimitPost ==
  \E c \in Clients :
    MaySend(rateLimit, c) /\ EndpointPOST(c, StrKey(KeyA), ArrayBody(EmptyArr), FALSE, FALSE)
LimitTranslate ==
  \E c \in Clients, r \in TranslateRequests :
    MaySend(translateRateLimit, c) /\ EndpointTranslate(c, r.text, r.apiKey, r.upstream)

NextLimits == LimitGet \/ LimitPost \/ LimitTranslate

SpecLimits == InitEndpoint /\ [][NextLimits]_vars

\* the record of identifier d is the same in maps a and b
SameRecord(a, b, d) == (Has(a, d) <=> Has(b, d)) /\ (Has(a, d) => a[d] = b[d])
\* identifier c has used up `budget` requests of its current window in map rl
Spent(rl, c, budget) ==
  Has(rl, c) /\ now <= rl[c].resetTime /\ rl[c].count >= budget

\* C26 (SpecLimits): a request to /phrases leaves the map of the translation
\* endpoint as it was and a request to the translation endpoint leaves the
\* map of /phrases as it was; no request changes the record of an identifier
\* other than its own; a GET or POST on /phrases is rejected (429) exactly
\* when its identifier has used 60 requests of the window, GETs and POSTs
\* counted together, and a translation request exactly when its identifier
\* has used 20 translation requests.
C26_BudgetsKeptApart ==
  [][ LET c == resp'.req.identifier
          onPhrases == resp'.req.op \in {"GET", "POST"}
      IN /\ onPhrases => translateRateLimit' = translateRateLimit
         /\ ~onPhrases => rateLimit' = rateLimit
         /\ \A d \in Clients \ {c} :
              /\ SameRecord(rateLimit, rateLimit', d)
              /\ SameRecord(translateRateLimit, translateRateLimit', d)
         /\ onPhrases =>
              /\ resp'.admitted <=> ~Spent(rateLimit, c, maxRequests)
              /\ (resp'.admitted /\ Has(rateLimit, c)) =>
                   rateLimit'[c].count = rateLimit[c].count + 1
         /\ ~onPhrases =>
              resp'.admitted <=> ~Spent(translateRateLimit, c, translateMaxRequests)
         /\ resp'.res.status = 429 <=> ~resp'.admitted
    ]_vars

\* the first identifier has spent both budgets, by GETs and POSTs on
\* /phrases, and a request of the second identifier is still admitted
C26_Witness ==
  /\ Spent(rateLimit, "ip1", maxRequests)
  /\ Spent(translateRateLimit, "ip1", translateMaxRequests)
  /\ resp.req.identifier = "ip2" /\ resp.req.op = "POST"
  /\ resp.admitted /\ resp.res.status = 200
  /\ Has(translateRateLimit, "ip2")

\* C27 as stated (SpecEdit): every mutation, the deletion of the last phrase
\* included, leaves exactly one push timer pending, the one it started for
\* the collection as the mutation left it; and a timer that fires POSTs the
\* collection of the last mutation, never an earlier one.
C27_Original ==
  [][ /\ Mutates => timers' = {Closure(syncKey', phrases')}
      /\ \A t \in Fired(timers, timers') : t.phrases = phrases
    ]_vars

\* the debounced pushes on their way to the endpoint
PushesInFlight == {m \in net : m.flow = "push"}

\* C28 as stated (SpecEdit): at most one debounced push of the client is in
\* flight at any time, so that the endpoint cannot handle two of them in the
\* order opposite to the one in which they were sent.
C28_Original == Cardinality(PushesInFlight) <= 1

\* the client has come to rest: no timer pending, no request or answer on
\* its way, no translation awaited
AtRest ==
  /\ Loaded /\ ~isLoading
  /\ timers = {} /\ net = {} /\ inbox = {}

\* C29 as stated (SpecBurst: one client, every request answered with
\* success): once the client has mutated its collection and has come to rest,
\* the Remote Store holds under its key exactly the in-memory collection,
\* the empty one included.
C29_Original ==
  (AtRest /\ log.mutations > 0) =>
    /\ ~StoredUnder(syncKey).null
    /\ JSONparse(StoredUnder(syncKey).text) = phrases

\* the ids of the phrases the Local Cache ls holds
CachedIds(ls) ==
  IF ls.phrases.null THEN {} ELSE ArrIds(JSONparse(ls.phrases.val))

\* the step adds a phrase while loadPhrases awaits the answer to its GET
AddsDuringInitGet ==
  initPc = "get" /\ Mutates /\ ArrLen(phrases') = ArrLen(phrases) + 1

\* C30 as stated (SpecEdit): a phrase added while the Init GET is in flight
\* leaves in the Local Cache every phrase the Local Cache held before.
C30_Original ==
  [][ AddsDuringInitGet => CachedIds(localStorage) \subseteq CachedIds(localStorage')
    ]_vars

\* the step adopts the collection the Init GET returned
AdoptsRemote == log.init = "pending" /\ log'.init = "remote"

\* C31 as stated (SpecLoad: the user makes no mutation): adopting the
\* collection received from the Remote Store arms no push timer and sends no
\* request, and while the collection in memory is the adopted one the client
\* has issued no POST.
C31_Original ==
  [][ /\ AdoptsRemote => (timers' = timers /\ net' \subseteq net)
      /\ log'.init = "remote" => log'.posts = 0
    ]_vars

\* the answers to a rotation GET that the step hands to handleSetSyncKey
RotationAnswers == {m \in inbox \ inbox' : m.flow = "rotate"}

\* C32 (SpecRotate): when the GET of a key rotation fails (network error or
\* error status), the step that settles it leaves the in-memory collection
\* as it was, and the in-memory key and the key in the Local Cache are the
\* new key before and after it.
C32_FailedRotationKeepsNewKey ==
  [][ \A m \in RotationAnswers :
        ~Ok(m) =>
          /\ phrases' = phrases
          /\ syncKey = log.carried.syncKey /\ syncKey' = syncKey
          /\ localStorage.syncKey = Item(syncKey)
          /\ localStorage'.syncKey = localStorage.syncKey
    ]_vars

\* a rotation to a key under which the Remote Store holds a collection has
\* failed: the client keeps the collection it had, under the new key
C32_Witness ==
  /\ log.rotations = 1 /\ initPc = "done"
  /\ \A m \in net \cup inbox : m.flow # "rotate"
  /\ syncKey = KeyB /\ localStorage.syncKey = Item(KeyB) /\ initKey # KeyB
  /\ ArrLen(phrases) > 0 /\ phrases = log.carried.phrases
  /\ ~StoredUnder(KeyB).null
  /\ JSONparse(StoredUnder(KeyB).text) = Arr(<<R2>>, 0)

----
(***************************************************************************)
(* SpecKeys: the page is opened and the user types sync keys into the      *)
(* settings panel, well-formed or not.                                     *)
(***************************************************************************)
TypedKeys == {KeyB, <<" ">>, Key5, <<" ">> \o KeyDash \o <<" ">>}

NextKeys ==
  \/ \E g \in GeneratedKeys : Mount(g)
  \/ InitGetSettled
  \/ InitPostSettled
  \/ TimerFires
  \/ \E k \in TypedKeys : log.rotations < MaxRotations /\ SetSyncKey(k)
  \/ RotateSettled
  \/ ServeGet(FALSE)
  \/ ServePost(FALSE)

SpecKeys == Init /\ [][NextKeys]_vars

\* C33 as stated (SpecKeys): once the page is mounted, the sync key in
\* memory and in the Local Cache matches ^[a-zA-Z0-9]{6,32}$, and no request
\* of the client is answered 400.
C33_Original ==
  /\ initPc # "idle" =>
       /\ SyncKeyPattern(syncKey)
       /\ localStorage.syncKey = Item(syncKey)
  /\ \A m \in inbox : m.status # 400

----
(***************************************************************************)
(* SpecHandle: calls of GET and POST that overlap on the server.  Each     *)
(* call is followed through getRedisClient(): redisClient is "null", then  *)
(* "connecting" once createClient() is assigned and connect() is awaited,  *)
(* then "client" (connected) or "closed" (connect() rejected).             *)
(***************************************************************************)
Handler(pc, op, k, p, handle, status) ==
  [pc |-> pc, op |-> op, key |-> k, p |-> p, handle |-> handle, status |-> status]

\* a call with a valid key is admitted and reaches getRedisClient(): the
\* first one creates the handle and awaits connect(); a later one finds
\* redisClient set and gets it back at once
Arrive(r, op, k, p) ==
  /\ handlers[r].pc = "none"
  /\ KeyError(StrKey(k)) = ""
  /\ LET lim == checkRateLimit(rateLimit, ClientIp, now) IN
     /\ lim.ok
     /\ rateLimit' = lim.map
  /\ IF redisClient = "null"
     THEN /\ redisClient' = "connecting"
          /\ handlers' = [handlers EXCEPT ![r] = Handler("connect", op, k, p, "connecting", 0)]
     ELSE /\ UNCHANGED redisClient
          /\ handlers' = [handlers EXCEPT ![r] = Handler("ready", op, k, p, redisClient, 0)]
  /\ UNCHANGED <<headers, now, translateRateLimit, redis, resp, posted, span, win>>
  /\ UNCHANGED clientVars

\* connect() resolves: the call that awaited it goes on with the handle
Connected ==
  /\ redisClient = "connecting"
  /\ redisClient' = "client"
  /\ handlers' = [r \in DOMAIN handlers |->
                    IF handlers[r].pc = "connect"
                    THEN [handlers[r] EXCEPT !.pc = "ready", !.handle = "client"]
                    ELSE handlers[r]]
  /\ UNCHANGED <<headers, now, rateLimit, translateRateLimit, redis, resp, posted, span, win>>
  /\ UNCHANGED clientVars

\* connect() rejects: the call that awaited it lands in its catch block (500);
\* redisClient stays assigned
ConnectFails ==
  /\ redisClient = "connecting"
  /\ redisClient' = "closed"
  /\ handlers' = [r \in DOMAIN handlers |->
                    IF handlers[r].pc = "connect"
                    THEN [handlers[r] EXCEPT !.pc = "done", !.status = 500]
                    ELSE handlers[r]]
  /\ UNCHANGED <<headers, now, rateLimit, translateRateLimit, redis, resp, posted, span, win>>
  /\ UNCHANGED clientVars

\* redis.get / redis.set on a connected handle, and the 200 answer
UseStore(r) ==
  /\ handlers[r].pc = "ready"
  /\ redisClient = "client"
  /\ redis' = IF handlers[r].op = "POST"
              THEN RedisSet(redis, handlers[r].key, handlers[r].p)
              ELSE redis
  /\ handlers' = [handlers EXCEPT ![r].pc = "done", ![r].status = 200]
  /\ UNCHANGED <<headers, now, rateLimit, translateRateLimit, redisClient, resp, posted, span, win>>
  /\ UNCHANGED clientVars

\* redis.get / redis.set on a handle that is not connected rejects (500);
\* while connect() is pending the library may also hold the command back
\* until Connected, which is UseStore taken later
UseUnconnected(r) ==
  /\ handlers[r].pc = "ready"
  /\ redisClient \in {"connecting", "closed"}
  /\ handlers' = [handlers EXCEPT ![r].pc = "done", ![r].status = 500]
  /\ UNCHANGED <<headers, now, rateLimit, translateRateLimit, redisClient, redis, resp, posted,
                 span, win>>
  /\ UNCHANGED clientVars

HandlerBodies == {EmptyArr, Arr(<<P1>>, 0)}

NextHandle ==
  \/ \E r \in DOMAIN handlers, op \in {"GET", "POST"}, p \in HandlerBodies :
       Arrive(r, op, KeyA, IF op = "GET" THEN EmptyArr ELSE p)
  \/ Connected
  \/ ConnectFails
  \/ \E r \in DOMAIN handlers : UseStore(r)
  \/ \E r \in DOMAIN handlers : UseUnconnected(r)

SpecHandle == InitEndpoint /\ [][NextHandle]_vars

\* C34 as stated (SpecHandle): the handle is created once, that is, once
\* redisClient is set no call sets it again by createClient(); and every
\* call that has got the handle back from getRedisClient() got it with its
\* connection completed.
C34_Original ==
  [][ /\ redisClient # "null" => (redisClient' # "null" /\
                                    (redisClient' = "connecting" => redisClient = "connecting"))
      /\ \A r \in DOMAIN handlers :
           handlers'[r].pc = "ready" => handlers'[r].handle = "client"
    ]_vars

\* the step ends a submission without a mutation: the translation failed
SubmissionFails == isLoading /\ ~isLoading' /\ ~Mutates

\* C35 (SpecEdit): when the translation of a submission fails, the fallback
\* phrase becomes the current phrase and nothing else changes: the in-memory
\* collection, the Local Cache and the Remote Store are as before, no timer
\* is armed and no request is sent.
C35_FallbackOnlyDisplayed ==
  [][ SubmissionFails =>
        /\ currentPhrase' = Some(Phrase(Uuid(nextId), translating))
        /\ phrases' = phrases
        /\ localStorage' = localStorage
        /\ redis' = redis
        /\ timers' = timers /\ syncTimeoutRef' = syncTimeoutRef
        /\ net' = net
    ]_vars

\* the page has loaded a collection, one submission has failed and no
\* mutation was made: the phrase shown is not part of the collection
C35_Witness ==
  /\ initPc = "done" /\ ~isLoading
  /\ log.mutations = 0 /\ nextId = 1
  /\ ~currentPhrase.null
  /\ currentPhrase.phrase.id \notin ArrIds(phrases)
  /\ ArrLen(phrases) > 0 /\ LocalCacheIs(localStorage, phrases)

\* the count the record of identifier c shows after one more admitted request
CountAfterOne(rl, c) ==
  IF Has(rl, c) /\ now <= rl[c].resetTime THEN rl[c].count + 1 ELSE 1

\* C36 (SpecEndpoint): a request of an identifier that has used up its 60
\* requests of the window is answered 429 whatever its key and body, and
\* leaves the Remote Store, the store handle and the rate-limit map as they
\* were; a request answered 400 or 500 has added one to the count of its
\* identifier.
C36_LimitCheckedFirst ==
  [][ LET c == resp'.req.identifier IN
      /\ Spent(rateLimit, c, maxRequests) =>
           /\ resp'.res = TooMany
           /\ redis' = redis /\ redisClient' = redisClient
           /\ rateLimit' = rateLimit
      /\ resp'.res.status \in {400, 500} =>
           /\ Has(rateLimit', c)
           /\ rateLimit'[c].count = CountAfterOne(rateLimit, c)
    ]_vars

\* a POST without a valid key was answered 429 once the budget was spent,
\* after requests answered 400 and 500 had been counted
C36_Witness ==
  /\ IsPost /\ BadKey /\ resp.res = TooMany
  /\ Spent(rateLimit, resp.req.identifier, maxRequests)
  /\ redis = << >>

----
(***************************************************************************)
(* SpecWindows: one identifier sends requests to both endpoints while time *)
(* passes, so that windows fill up and run out.                            *)
(***************************************************************************)
WindowGet == EndpointGET(ClientIp, StrKey(KeyA), FALSE, FALSE)
WindowTranslate == EndpointTranslate(ClientIp, Text(<<"H","i">>), TRUE, "ok")

NextWindows == WindowGet \/ WindowTranslate \/ Tick

SpecWindows == InitEndpoint /\ [][NextWindows]_vars

\* every record of map rl has a count from 1 to budget
CountsWithin(rl, budget) ==
  \A c \in DOMAIN rl : rl[c].count >= 1 /\ rl[c].count <= budget

\* what a request of identifier c, admitted or not, made of map rl: a first
\* request or one later than resetTime opens a window with count 1; within
\* the window an admitted request adds one and a rejected one changes nothing
WindowStep(rl, after, c, admitted) ==
  IF ~Has(rl, c) \/ now > rl[c].resetTime
  THEN admitted /\ after = Put(rl, c, [count |-> 1, resetTime |-> now + windowMs])
  ELSE IF admitted
  THEN after = Put(rl, c, [count |-> rl[c].count + 1, resetTime |-> rl[c].resetTime])
  ELSE after = rl

\* C37 (SpecWindows): in the map of /phrases every count is from 1 to 60 and
\* in the map of the translation endpoint from 1 to 20; each request is
\* counted in the window of its identifier, so that a window admits at most
\* as many requests as the budget, and the first request later than
\* resetTime opens a new window with count 1.
C37_CountsAndWindows ==
  [][ /\ CountsWithin(rateLimit', maxRequests)
      /\ CountsWithin(translateRateLimit', translateMaxRequests)
      /\ (now' = now /\ resp'.req.op = "GET") =>
            WindowStep(rateLimit, rateLimit', resp'.req.identifier, resp'.admitted)
      /\ (now' = now /\ resp'.req.op = "TRANSLATE") =>
            WindowStep(translateRateLimit, translateRateLimit', resp'.req.identifier,
                       resp'.admitted)
    ]_vars

\* the window of /phrases has run out and a GET has opened a new one, while
\* the translation budget of a later window is used up
C37_Witness ==
  /\ IsGet /\ resp.admitted
  /\ Has(rateLimit, ClientIp) /\ rateLimit[ClientIp].count = 1
  /\ rateLimit[ClientIp].resetTime = now + windowMs /\ now > windowMs
  /\ Has(translateRateLimit, ClientIp)
  /\ translateRateLimit[ClientIp].count = translateMaxRequests
  /\ translateRateLimit[ClientIp].resetTime > windowMs

\* the entry of the Remote Store a sync key names
EntryOf(k) == Str_phrases \o k
\* entry x is the same before and after the step
SameEntry(x) ==
  /\ Has(redis', x) <=> Has(redis, x)
  /\ Has(redis, x) => redis'[x] = redis[x]

\* C38 (SpecEndpoint): a request made under key K leaves every entry of the
\* Remote Store other than phrases:K as it was, a GET leaves all of them, and
\* a GET answered 200 for K returns what the last POST answered 200 for K
\* stored (the empty list when there was none), whatever is stored under
\* other keys.
C38_KeysIsolated ==
  [][ /\ \A x \in DOMAIN redis \cup DOMAIN redis' :
           (resp'.req.op = "GET" \/ resp'.req.key.type # "string"
              \/ x # EntryOf(resp'.req.key.str)) => SameEntry(x)
      /\ (resp'.req.op = "GET" /\ resp'.res.status = 200) =>
           resp'.res.phrases =
             IF Has(posted, resp'.req.key.str) THEN posted[resp'.req.key.str]
             ELSE EmptyArr
    ]_vars

\* a POST under one key is stored while another key holds a different
\* collection, which is still there
C38_Witness ==
  /\ IsPost /\ resp.res.status = 200 /\ resp.req.key.str = KeyB
  /\ Has(redis, EntryOf(KeyA)) /\ Has(redis, EntryOf(KeyB))
  /\ redis[EntryOf(KeyA)] # redis[EntryOf(KeyB)]
  /\ Has(posted, KeyA) /\ redis[EntryOf(KeyA)] = JSONstringify(posted[KeyA])

----
(***************************************************************************)
(* SpecReturns: the page is opened and the user presses Clear All, with a  *)
(* collection or without and confirming or not, and submits sync keys,     *)
(* blank ones among them.                                                  *)
(***************************************************************************)
BlankKeys == {<<>>, <<" ">>, <<" ", " ">>}

NextReturns ==
  \/ \E g \in GeneratedKeys : Mount(g)
  \/ InitGetSettled
  \/ InitPostSettled
  \/ TimerFires
  \/ MayMutate(MaxMutations) /\ ClearAll
  \/ \E confirmed \in BOOLEAN : ClearAllReturns(confirmed)
  \/ log.rotations < MaxRotations /\ SetSyncKey(KeyB)
  \/ \E k \in BlankKeys : SetSyncKeyReturns(k)
  \/ RotateSettled
  \/ ServeGet(FALSE)
  \/ ServePost(FALSE)

SpecReturns == Init /\ [][NextReturns]_vars

\* the requests a step sends
Sent == net' \ net

\* C39 (SpecReturns): Clear All on an empty collection, or declined at the
\* confirmation, and a rotation with an empty or blank key change neither the
\* collection, the key, the Local Cache nor the Remote Store and send
\* nothing; no step from an empty collection sends the POST of Clear All,
\* and every GET of a rotation carries a key that is not blank.
C39_ReturnsAreNoOps ==
  [][ /\ log'.returned # log.returned =>
           /\ UNCHANGED <<phrases, syncKey, localStorage, redis, currentPhrase>>
           /\ UNCHANGED <<net, inbox, timers, syncTimeoutRef>>
           /\ log'.posts = log.posts /\ log'.rotations = log.rotations
           /\ log'.mutations = log.mutations
      /\ ArrLen(phrases) = 0 => \A m \in Sent : m.flow # "clear"
      /\ \A m \in Sent : m.flow = "rotate" => (m.key # <<>> /\ m.key = Trim(m.key))
      /\ Rotated => (syncKey' # <<>> /\ localStorage'.syncKey = Item(syncKey'))
    ]_vars

\* the three returns have been taken, the declined Clear All with a
\* collection in memory, which is still there and in the Local Cache
C39_Witness ==
  /\ log.returned = {"clearEmpty", "clearDeclined", "rotateBlank"}
  /\ ArrLen(phrases) > 0 /\ LocalCacheIs(localStorage, phrases)
  /\ log.mutations = 0 /\ log.rotations = 0
  /\ net = {} /\ inbox = {}

----
(***************************************************************************)
(* SpecIp: requests arrive with and without the headers that name the      *)
(* client.                                                                 *)
(***************************************************************************)
\* the requests each identifier sends
MaxPerIdentifier == 2

ForwardedValues ==
  {NoHeader, Header(<<>>), Header(<<"1">>), Header(<<"1", ",", " ", "2">>),
   Header(<<"2", " ", ",", "1">>), Header(<<",", "1">>)}
RealIpValues == {NoHeader, Header(<<>>), Header(<<"1">>), Header(<<"3">>)}

\* GET /api/phrases?syncKey=k of a request carrying headers h
RequestGET(h, k) ==
  LET identifier == getClientIp(h)
      r == HandleGET(rateLimit, redisClient, redis, now, identifier, k, FALSE) IN
  /\ IF Has(rateLimit, identifier)
     THEN rateLimit[identifier].count < MaxPerIdentifier ELSE TRUE
  /\ headers' = h
  /\ rateLimit' = r.rl
  /\ redisClient' = r.client
  /\ redis' = r.store
  /\ resp' = Seen("GET", identifier, k, NotArray, r)
  /\ span' = SpanNext(span, now, FALSE)
  /\ win' = WinNext(win, now)
  /\ UNCHANGED <<now, posted, translateRateLimit, handlers>>
  /\ UNCHANGED clientVars

NextIp ==
  \E f \in ForwardedValues, x \in RealIpValues : RequestGET(Headers(f, x), StrKey(KeyA))

SpecIp == InitEndpoint /\ [][NextIp]_vars

\* the request is charged to identifier c and to no other
ChargedTo(c) ==
  /\ Has(rateLimit', c)
  /\ rateLimit'[c].count = CountAfterOne(rateLimit, c)
  /\ \A d \in DOMAIN rateLimit' \ {c} : Has(rateLimit, d) /\ rateLimit'[d] = rateLimit[d]

\* C40 as stated (SpecIp): a request that carries x-forwarded-for is charged
\* to the first comma-separated entry of that header; one that does not is
\* charged to x-real-ip when it carries that header, and to "unknown"
\* otherwise.
C40_Original ==
  [][ LET f == headers'.forwardedFor
          x == headers'.realIp IN
      IF ~f.null THEN ChargedTo(Trim(FirstEntry(f.val)))
      ELSE IF ~x.null THEN ChargedTo(x.val)
      ELSE ChargedTo(Str_unknown)
    ]_vars

\* C40 amended (SpecIp): a request is charged to the first comma-separated
\* entry of x-forwarded-for, trimmed, when the header is present and not
\* empty; else to x-real-ip when that header is present and not empty; else
\* to "unknown". The requests with neither header, or with empty ones, share
\* the budget of "unknown".
C40_IdentifierFromHeaders ==
  [][ LET f == headers'.forwardedFor
          x == headers'.realIp IN
      IF ~f.null /\ f.val # <<>> THEN ChargedTo(Trim(FirstEntry(f.val)))
      ELSE IF ~x.null /\ x.val # <<>> THEN ChargedTo(x.val)
      ELSE ChargedTo(Str_unknown)
    ]_vars

\* a request with an empty x-forwarded-for is charged to its x-real-ip, after
\* two requests without headers were charged to "unknown" and one whose
\* x-forwarded-for begins with a comma to the empty identifier
C40_Witness ==
  /\ IsGet /\ resp.res.status = 200
  /\ headers = Headers(Header(<<>>), Header(<<"3">>))
  /\ resp.req.identifier = <<"3">>
  /\ Has(rateLimit, <<"3">>) /\ rateLimit[<<"3">>].count = 1
  /\ Has(rateLimit, Str_unknown) /\ rateLimit[Str_unknown].count = MaxPerIdentifier
  /\ Has(rateLimit, <<>>)

====
